---- MODULE Spec2Model ----
(***************************************************************************)
(* State-machine model of the maid cafe backend (Hono on Cloudflare        *)
(* Workers, D1 tables, R2 blobs).  Every route handler is a sequence of    *)
(* steps, one per awaited database or object-store call; a request slot    *)
(* (req[p]) holds the handler's position and its local variables.          *)
(***************************************************************************)
EXTENDS Integers, Sequences, FiniteSets, TLC

VARIABLES
  maids,      \* table maid:  id -> row              (DOMAIN = ids that exist)
  users,      \* table user:  id -> row
  menus,      \* table menu:  id -> row
  orders,     \* table order: id -> row
  instaxes,   \* table instax: id -> row
  histories,  \* table instax_history: id -> row
  blobs,      \* keys of the objects held by the R2 bucket
  seq,        \* AUTOINCREMENT sequences and the count of object keys drawn
  now,        \* wall clock, in ticks
  conc,       \* how many requests the runtime has in flight at once
  req         \* request slot -> handler position and locals

vars == <<maids, users, menus, orders, instaxes, histories, blobs, seq, now, conc, req>>

-----------------------------------------------------------------------------
(* Bounds of the model *)

MaxClock == 3
TicksPerDay == 2
MaxSeat == 2
MaxKeys == 3
MaxMenus == 2
MaxOrders == 2
MaxInstax == 2
MaxHist == 2
MaxStock == 1

MaidIds == {"m1", "m2"}
UserIds == {"u1", "u2"}
Procs == {"p1", "p2"}
Seats == 1..MaxSeat

(* SQL NULL / JS null in an id column, a seat column, a key column, a text column *)
Null == "null"
NullSeat == 0
NullKey == 0
NullText == <<"NULL">>

-----------------------------------------------------------------------------
(* Text: a string is a sequence of one-character strings *)

RECURSIVE TrimLeft(_)
TrimLeft(s) == IF s # <<>> /\ Head(s) = " " THEN TrimLeft(Tail(s)) ELSE s

RECURSIVE TrimRight(_)
TrimRight(s) ==
  IF s # <<>> /\ s[Len(s)] = " " THEN TrimRight(SubSeq(s, 1, Len(s) - 1)) ELSE s

Trim(s) == TrimRight(TrimLeft(s))

(* sanitizeStatus on a value that is present: null stays null, blank becomes null *)
sanitizeStatus(value) ==
  IF value = NullText THEN NullText
  ELSE IF Len(Trim(value)) > 0 THEN Trim(value) ELSE NullText

(* Number.parseInt(text, 10): leading blanks are skipped, then an optional   *)
(* sign, then the longest run of decimal digits; whatever follows is ignored *)
(* and no digit at all gives NaN                                             *)
DigitChars == <<"0", "1", "2", "3", "4", "5", "6", "7", "8", "9">>

IsDigit(c) == \E i \in DOMAIN DigitChars : DigitChars[i] = c

DigitValue(c) == (CHOOSE i \in DOMAIN DigitChars : DigitChars[i] = c) - 1

RECURSIVE DigitsPrefix(_)
DigitsPrefix(s) ==
  IF s # << >> /\ IsDigit(Head(s)) THEN <<Head(s)>> \o DigitsPrefix(Tail(s)) ELSE << >>

RECURSIVE DigitsValue(_)
DigitsValue(ds) ==
  IF ds = << >> THEN 0
  ELSE DigitsValue(SubSeq(ds, 1, Len(ds) - 1)) * 10 + DigitValue(ds[Len(ds)])

ParseInt(text) ==
  LET t == TrimLeft(text)
      neg == t # << >> /\ Head(t) = "-"
      u == IF t # << >> /\ Head(t) \in {"-", "+"} THEN Tail(t) ELSE t
      ds == DigitsPrefix(u)
  IN [nan |-> ds = << >>,
      value |-> IF neg THEN 0 - DigitsValue(ds) ELSE DigitsValue(ds)]

(* the decimal text of a one-digit number *)
DigitText(k) == <<DigitChars[k + 1]>>

(* a looser id check: any text parseInt reads a positive number from *)
IsPositiveIdParamLoose(text) == ~ParseInt(text).nan /\ ParseInt(text).value > 0

(* /^[1-9]\d*$/.test(idParam) *)
IsPositiveIdParam(text) ==
  /\ Len(text) > 0
  /\ \A i \in 1..Len(text) : IsDigit(text[i])
  /\ text[1] # "0"

-----------------------------------------------------------------------------
(* Timestamps.  D1's CURRENT_TIMESTAMP writes "YYYY-MM-DD HH:MM:SS"; the     *)
(* handlers' new Date().toISOString() writes "YYYY-MM-DDTHH:MM:SS.sssZ".     *)
(* A timestamp text is kept as its date part, the separator character that   *)
(* follows the date, and the time of day.                                    *)

SqlTimestamp(t) == [day |-> t \div TicksPerDay, sep |-> " ", tod |-> t % TicksPerDay]

IsoTimestamp(t) == [day |-> t \div TicksPerDay, sep |-> "T", tod |-> t % TicksPerDay]

(* byte value order of the two separator characters: " " is 0x20, "T" is 0x54 *)
SepByte(c) == IF c = " " THEN 32 ELSE 84

(* ORDER BY on a TEXT column: bytewise comparison of the two strings *)
TextLess(a, b) ==
  \/ a.day < b.day
  \/ a.day = b.day /\ SepByte(a.sep) < SepByte(b.sep)
  \/ a.day = b.day /\ a.sep = b.sep /\ a.tod < b.tod

(* the instant a timestamp text denotes *)
InstantOf(ts) == ts.day * TicksPerDay + ts.tod

-----------------------------------------------------------------------------
(* Request slots *)

Idle == [op |-> "idle", pc |-> "idle"]

InFlight == {p \in Procs : req[p].pc # "idle"}

CanStart(p) == req[p].pc = "idle" /\ Cardinality(InFlight) < conc

(* the stored state a request found when it arrived *)
Db == [maids |-> maids, users |-> users, menus |-> menus, orders |-> orders,
       instaxes |-> instaxes, histories |-> histories, blobs |-> blobs]

(* c.json(createErrorResponse / createSuccessResponse ..., status) *)
Respond(r, status, message, data) ==
  [op |-> r.op, pc |-> "done", in |-> r.in, pre |-> r.pre, at |-> r.at,
   status |-> status, message |-> message, data |-> data]

(* an exception no handler catches: Hono answers 500 *)
Uncaught(r) == Respond(r, 500, "Internal Server Error", Null)

(* "before the call" is well defined when requests run one at a time; with   *)
(* several in flight the slot keeps no picture of the stored state           *)
Snapshot == IF conc = 1 THEN Db ELSE Null

Begin(op, in) == [op |-> op, pc |-> "start", in |-> in, pre |-> Snapshot, at |-> now]

dbvars == <<maids, users, menus, orders, instaxes, histories, blobs>>

(* the response has been sent; the slot is free again *)
Finish(p) ==
  /\ req[p].pc = "done"
  /\ req' = [req EXCEPT ![p] = Idle]
  /\ UNCHANGED <<dbvars, seq, now, conc>>

(* time passes *)
Tick ==
  /\ now < MaxClock
  /\ now' = now + 1
  /\ UNCHANGED <<dbvars, seq, conc, req>>

Remove(table, id) == [i \in DOMAIN table \ {id} |-> table[i]]

-----------------------------------------------------------------------------
(* a user table whose foreign keys are not enforced *)
UserFkUnchecked(row) == TRUE

(* Foreign keys of table user (D1 enforces them on every write) *)

UserFkOk(row) ==
  /\ row.maidId = Null \/ row.maidId \in DOMAIN maids
  /\ row.instaxMaidId = Null \/ row.instaxMaidId \in DOMAIN maids

NoError == "ok"

(* a validator that looks nothing up *)
validateNothing(maidId, fieldName) == NoError

(* validateMaidReference: null or undefined passes, otherwise the maid must exist *)
validateMaidReference(maidId, fieldName) ==
  IF maidId = Null THEN NoError
  ELSE IF maidId \notin DOMAIN maids
    THEN fieldName \o " does not reference an existing maid."
    ELSE NoError

-----------------------------------------------------------------------------
(* POST /api/users/:id  (register / re-register) *)

(* a re-register that writes the insert branch's empty name *)
ReRegisterRowEmptyName(stored, existing, body, ts) ==
  [stored EXCEPT
     !.maidId = body.maid_id,
     !.seatId = body.seat_id,
     !.instaxMaidId = Null,
     !.isValid = TRUE,
     !.name = <<>>,
     !.updatedAt = ts,
     !.status = IF "status" \in body.has THEN sanitizeStatus(body.status) ELSE @]

(* the row after the re-register UPDATE: updatePayload laid over the stored row *)
ReRegisterRow(stored, existing, body, ts) ==
  [stored EXCEPT
     !.maidId = body.maid_id,
     !.seatId = body.seat_id,
     !.instaxMaidId = Null,
     !.isValid = TRUE,
     !.name = existing.name,
     !.updatedAt = ts,
     !.status = IF "status" \in body.has THEN sanitizeStatus(body.status) ELSE @]

(* insertValues; created_at / updated_at take the column default CURRENT_TIMESTAMP *)
RegisterRow(body, t) ==
  [name |-> <<>>,
   status |-> IF "status" \in body.has THEN sanitizeStatus(body.status) ELSE NullText,
   maidId |-> body.maid_id,
   instaxMaidId |-> Null,
   seatId |-> body.seat_id,
   isValid |-> TRUE,
   updatedAt |-> SqlTimestamp(t)]

UserCreateStart(p, id, body) ==
  /\ CanStart(p)
  /\ LET r == Begin("UserCreate", [id |-> id, body |-> body])
         err == validateMaidReference(body.maid_id, "maid_id")
     IN req' = [req EXCEPT ![p] =
                  IF err # NoError THEN Respond(r, 400, err, Null)
                  ELSE [r EXCEPT !.pc = "find"]]
  /\ UNCHANGED <<dbvars, seq, now, conc>>

UserCreateFind(p) ==
  /\ req[p].op = "UserCreate" /\ req[p].pc = "find"
  /\ LET r == req[p]
         id == r.in.id
     IN req' = [req EXCEPT ![p] =
                  IF id \in DOMAIN users
                    THEN [op |-> r.op, pc |-> "update", in |-> r.in, pre |-> r.pre, at |-> r.at,
                          existing |-> users[id], nowIso |-> IsoTimestamp(now)]
                    ELSE [r EXCEPT !.pc = "insert"]]
  /\ UNCHANGED <<dbvars, seq, now, conc>>

UserCreateUpdate(p) ==
  /\ req[p].op = "UserCreate" /\ req[p].pc = "update"
  /\ LET r == req[p]
         id == r.in.id
         row == IF id \in DOMAIN users
                  THEN ReRegisterRow(users[id], r.existing, r.in.body, r.nowIso)
                  ELSE ReRegisterRow(r.existing, r.existing, r.in.body, r.nowIso)
     IN IF id \in DOMAIN users /\ ~UserFkOk(row)
          THEN /\ req' = [req EXCEPT ![p] = Uncaught(r)]
               /\ UNCHANGED users
          ELSE /\ users' = IF id \in DOMAIN users THEN [users EXCEPT ![id] = row] ELSE users
               /\ req' = [req EXCEPT ![p] =
                            Respond(r, 200, "User registered successfully.", row)]
  /\ UNCHANGED <<maids, menus, orders, instaxes, histories, blobs, seq, now, conc>>

UserCreateInsert(p) ==
  /\ req[p].op = "UserCreate" /\ req[p].pc = "insert"
  /\ LET r == req[p]
         id == r.in.id
         row == RegisterRow(r.in.body, now)
     IN IF id \in DOMAIN users \/ ~UserFkOk(row)
          THEN /\ req' = [req EXCEPT ![p] = Uncaught(r)]
               /\ UNCHANGED users
          ELSE /\ users' = (id :> row) @@ users
               /\ req' = [req EXCEPT ![p] =
                            Respond(r, 200, "User registered successfully.", row)]
  /\ UNCHANGED <<maids, menus, orders, instaxes, histories, blobs, seq, now, conc>>

-----------------------------------------------------------------------------
(* PATCH /api/users/:id *)

(* updateValues laid over a row; "name" .. "is_valid" are the keys the body carries *)
ApplyUserUpdate(stored, body) ==
  [stored EXCEPT
     !.name = IF "name" \in body.has THEN Trim(body.name) ELSE @,
     !.maidId = IF "maid_id" \in body.has THEN body.maid_id ELSE @,
     !.instaxMaidId = IF "instax_maid_id" \in body.has THEN body.instax_maid_id ELSE @,
     !.seatId = IF "seat_id" \in body.has THEN body.seat_id ELSE @,
     !.status = IF "status" \in body.has THEN sanitizeStatus(body.status) ELSE @,
     !.isValid = IF "is_valid" \in body.has THEN body.is_valid ELSE @]

(* Object.keys(updateValues): one key per field the body carries *)
UserUpdateKeys(body) ==
  body.has \cap {"name", "maid_id", "instax_maid_id", "seat_id", "status", "is_valid"}

UserUpdateStart(p, id, body) ==
  /\ CanStart(p)
  /\ LET r == Begin("UserUpdate", [id |-> id, body |-> body])
     IN req' = [req EXCEPT ![p] =
                  IF id \notin DOMAIN users
                    THEN Respond(r, 404, "User not found.", Null)
                    ELSE [op |-> r.op, pc |-> "vmaid", in |-> r.in, pre |-> r.pre, at |-> r.at,
                          existing |-> users[id]]]
  /\ UNCHANGED <<dbvars, seq, now, conc>>

UserUpdateValidateMaid(p) ==
  /\ req[p].op = "UserUpdate" /\ req[p].pc = "vmaid"
  /\ LET r == req[p]
         err == IF "maid_id" \in r.in.body.has
                  THEN validateMaidReference(r.in.body.maid_id, "maid_id")
                  ELSE NoError
     IN req' = [req EXCEPT ![p] =
                  IF err # NoError THEN Respond(r, 400, err, Null)
                  ELSE [r EXCEPT !.pc = "vinstax"]]
  /\ UNCHANGED <<dbvars, seq, now, conc>>

UserUpdateValidateInstaxMaid(p) ==
  /\ req[p].op = "UserUpdate" /\ req[p].pc = "vinstax"
  /\ LET r == req[p]
         err == IF "instax_maid_id" \in r.in.body.has
                  THEN validateMaidReference(r.in.body.instax_maid_id, "instax_maid_id")
                  ELSE NoError
     IN req' = [req EXCEPT ![p] =
                  IF err # NoError THEN Respond(r, 400, err, Null)
                  ELSE IF UserUpdateKeys(r.in.body) = {}
                    THEN Respond(r, 200, "No changes applied.", r.existing)
                    ELSE [op |-> r.op, pc |-> "write", in |-> r.in, pre |-> r.pre, at |-> r.at,
                          existing |-> r.existing, nowIso |-> IsoTimestamp(now)]]
  /\ UNCHANGED <<dbvars, seq, now, conc>>

UserUpdateWrite(p) ==
  /\ req[p].op = "UserUpdate" /\ req[p].pc = "write"
  /\ LET r == req[p]
         id == r.in.id
         base == IF id \in DOMAIN users THEN users[id] ELSE r.existing
         row == [ApplyUserUpdate(base, r.in.body) EXCEPT !.updatedAt = r.nowIso]
     IN IF id \in DOMAIN users /\ ~UserFkOk(row)
          THEN /\ req' = [req EXCEPT ![p] = Uncaught(r)]
               /\ UNCHANGED users
          ELSE /\ users' = IF id \in DOMAIN users THEN [users EXCEPT ![id] = row] ELSE users
               /\ req' = [req EXCEPT ![p] =
                            Respond(r, 200, "User updated successfully.", row)]
  /\ UNCHANGED <<maids, menus, orders, instaxes, histories, blobs, seq, now, conc>>

-----------------------------------------------------------------------------
(* Object store (R2) *)

(* uploadR2Object: the key ends in a fresh random UUID, so it is a new key *)
FreshKey == seq.key + 1

(* deleteR2Object: a null key is skipped *)
deleteR2Object(store, key) == IF key = NullKey THEN store ELSE store \ {key}

-----------------------------------------------------------------------------
(* POST /api/maids/:id *)

MaidInsertRow(body) ==
  [name |-> IF "name" \in body.has THEN Trim(body.name) ELSE <<>>,
   imageUrl |-> NullKey,
   isActive |-> FALSE,
   isInstaxAvailable |->
     IF "is_instax_available" \in body.has THEN body.is_instax_available ELSE FALSE]

MaidCreateStart(p, id, body) ==
  /\ CanStart(p)
  /\ LET r == Begin("MaidCreate", [id |-> id, body |-> body])
     IN req' = [req EXCEPT ![p] =
                  IF id \in DOMAIN maids
                    THEN Respond(r, 409, "Maid id already exists.", Null)
                    ELSE [r EXCEPT !.pc = "insert"]]
  /\ UNCHANGED <<dbvars, seq, now, conc>>

MaidCreateInsert(p) ==
  /\ req[p].op = "MaidCreate" /\ req[p].pc = "insert"
  /\ LET r == req[p]
         id == r.in.id
         row == MaidInsertRow(r.in.body)
     IN IF id \in DOMAIN maids
          THEN /\ req' = [req EXCEPT ![p] = Uncaught(r)]
               /\ UNCHANGED maids
          ELSE /\ maids' = (id :> row) @@ maids
               /\ req' = [req EXCEPT ![p] =
                            Respond(r, 201, "Maid created successfully.", row)]
  /\ UNCHANGED <<users, menus, orders, instaxes, histories, blobs, seq, now, conc>>

-----------------------------------------------------------------------------
(* PATCH /api/maids/:id *)

TrueWords == {"true", "1", "yes", "on"}
FalseWords == {"false", "0", "no", "off"}

(* What the handler's input parsing yields.  name is <<>> when the request   *)
(* resolves to no name (undefined or empty: both are falsy in `if (name)`).  *)
Parsed(err, name, hasFlag, flag, image) ==
  [err |-> err, name |-> name, hasFlag |-> hasFlag, flag |-> flag, image |-> image]

(* a parser without the "at least one field" rules *)
ParseMaidUpdateAnyBody(body) ==
  IF body.ct = "multipart"
    THEN LET name == IF "name" \in body.has THEN Trim(body.name) ELSE <<>>
             hasFlag == "is_instax_available" \in body.has
         IN IF hasFlag /\ body.is_instax_available \notin TrueWords \cup FalseWords
              THEN Parsed("Invalid is_instax_available value. Use true or false.",
                          name, FALSE, FALSE, FALSE)
              ELSE Parsed(NoError, name, hasFlag,
                          hasFlag /\ body.is_instax_available \in TrueWords,
                          "image" \in body.has)
    ELSE Parsed(NoError,
                IF "name" \in body.has THEN Trim(body.name) ELSE <<>>,
                "is_instax_available" \in body.has,
                "is_instax_available" \in body.has /\ body.is_instax_available = "true",
                FALSE)

(* multipart: trimmed non-blank name, non-empty image file, flag word;       *)
(* JSON: updateMaidJsonBodySchema (name of at least one character, boolean   *)
(* flag, written "true" / "false", at least one of the two), name trimmed    *)
ParseMaidUpdate(body) ==
  IF body.ct = "multipart"
    THEN LET name == IF "name" \in body.has THEN Trim(body.name) ELSE <<>>
             hasFlag == "is_instax_available" \in body.has
         IN IF hasFlag /\ body.is_instax_available \notin TrueWords \cup FalseWords
              THEN Parsed("Invalid is_instax_available value. Use true or false.",
                          name, FALSE, FALSE, FALSE)
            ELSE IF name = <<>> /\ "image" \notin body.has /\ ~hasFlag
              THEN Parsed("No updatable fields provided.", name, FALSE, FALSE, FALSE)
              ELSE Parsed(NoError, name, hasFlag,
                          hasFlag /\ body.is_instax_available \in TrueWords,
                          "image" \in body.has)
    ELSE IF \/ ("name" \in body.has /\ Len(body.name) < 1)
            \/ body.has \cap {"name", "is_instax_available"} = {}
      THEN Parsed("Invalid request body.", <<>>, FALSE, FALSE, FALSE)
      ELSE Parsed(NoError,
                  IF "name" \in body.has THEN Trim(body.name) ELSE <<>>,
                  "is_instax_available" \in body.has,
                  "is_instax_available" \in body.has /\ body.is_instax_available = "true",
                  FALSE)

(* updateValues laid over a row; key is the uploaded image's key, if any *)
ApplyMaidUpdate(stored, parsed, key) ==
  [stored EXCEPT
     !.name = IF parsed.name # <<>> THEN parsed.name ELSE @,
     !.isInstaxAvailable = IF parsed.hasFlag THEN parsed.flag ELSE @,
     !.imageUrl = IF parsed.image THEN key ELSE @]

(* Object.keys(updateValues).length === 0 *)
MaidUpdateEmpty(parsed) == parsed.name = <<>> /\ ~parsed.hasFlag /\ ~parsed.image

MaidUpdateStart(p, id, body) ==
  /\ CanStart(p)
  /\ LET r == Begin("MaidUpdate", [id |-> id, body |-> body])
         parsed == ParseMaidUpdate(body)
     IN req' = [req EXCEPT ![p] =
                  IF parsed.err # NoError THEN Respond(r, 400, parsed.err, Null)
                  ELSE IF id \notin DOMAIN maids
                    THEN Respond(r, 404, "Maid not found.", Null)
                  ELSE IF parsed.image
                    THEN [pc |-> "upload", parsed |-> parsed, existing |-> maids[id]] @@ r
                  ELSE IF MaidUpdateEmpty(parsed)
                    THEN Respond(r, 200, "No changes applied.", maids[id])
                    ELSE [pc |-> "write", parsed |-> parsed, existing |-> maids[id],
                          key |-> NullKey] @@ r]
  /\ UNCHANGED <<dbvars, seq, now, conc>>

MaidUpdateUpload(p) ==
  /\ req[p].op = "MaidUpdate" /\ req[p].pc = "upload"
  /\ seq.key < MaxKeys
  /\ blobs' = blobs \cup {FreshKey}
  /\ seq' = [seq EXCEPT !.key = FreshKey]
  /\ req' = [req EXCEPT ![p] = [pc |-> "delold", key |-> FreshKey] @@ req[p]]
  /\ UNCHANGED <<maids, users, menus, orders, instaxes, histories, now, conc>>

MaidUpdateDeleteOld(p) ==
  /\ req[p].op = "MaidUpdate" /\ req[p].pc = "delold"
  /\ blobs' = deleteR2Object(blobs, req[p].existing.imageUrl)
  /\ req' = [req EXCEPT ![p].pc = "write"]
  /\ UNCHANGED <<maids, users, menus, orders, instaxes, histories, seq, now, conc>>

MaidUpdateWrite(p) ==
  /\ req[p].op = "MaidUpdate" /\ req[p].pc = "write"
  /\ LET r == req[p]
         id == r.in.id
         row == ApplyMaidUpdate(IF id \in DOMAIN maids THEN maids[id] ELSE r.existing,
                                r.parsed, r.key)
     IN /\ maids' = IF id \in DOMAIN maids THEN [maids EXCEPT ![id] = row] ELSE maids
        /\ req' = [req EXCEPT ![p] = Respond(r, 200, "Maid updated successfully.", row)]
  /\ UNCHANGED <<users, menus, orders, instaxes, histories, blobs, seq, now, conc>>

-----------------------------------------------------------------------------
(* DELETE /api/maids/:id *)

(* the foreign keys declared ON DELETE CASCADE instead *)
UsersCascadeOnMaidDelete(id) ==
  [u \in {v \in DOMAIN users : users[v].maidId # id /\ users[v].instaxMaidId # id} |->
     users[u]]

(* user.maid_id, user.instax_maid_id: ON DELETE SET NULL *)
UsersAfterMaidDelete(id) ==
  [u \in DOMAIN users |->
     [users[u] EXCEPT !.maidId = IF @ = id THEN Null ELSE @,
                      !.instaxMaidId = IF @ = id THEN Null ELSE @]]

(* instax.maid_id: ON DELETE CASCADE *)
InstaxesAfterMaidDelete(id) ==
  [i \in {j \in DOMAIN instaxes : instaxes[j].maidId # id} |-> instaxes[i]]

(* instax_history.instax_id: ON DELETE CASCADE *)
HistoriesOf(kept) ==
  [h \in {j \in DOMAIN histories : histories[j].instaxId \in kept} |-> histories[h]]

MaidDeleteStart(p, id) ==
  /\ CanStart(p)
  /\ LET r == Begin("MaidDelete", [id |-> id])
     IN req' = [req EXCEPT ![p] =
                  IF id \notin DOMAIN maids
                    THEN Respond(r, 404, "Maid not found.", Null)
                    ELSE [op |-> r.op, pc |-> "delete", in |-> r.in, pre |-> r.pre, at |-> r.at,
                          existing |-> maids[id]]]
  /\ UNCHANGED <<dbvars, seq, now, conc>>

MaidDeleteRow(p) ==
  /\ req[p].op = "MaidDelete" /\ req[p].pc = "delete"
  /\ LET id == req[p].in.id
     IN /\ maids' = Remove(maids, id)
        /\ users' = UsersAfterMaidDelete(id)
        /\ instaxes' = InstaxesAfterMaidDelete(id)
        /\ histories' = HistoriesOf(DOMAIN InstaxesAfterMaidDelete(id))
  /\ req' = [req EXCEPT ![p].pc = "blob"]
  /\ UNCHANGED <<menus, orders, blobs, seq, now, conc>>

MaidDeleteBlob(p) ==
  /\ req[p].op = "MaidDelete" /\ req[p].pc = "blob"
  /\ blobs' = deleteR2Object(blobs, req[p].existing.imageUrl)
  /\ req' = [req EXCEPT ![p] =
               Respond(req[p], 200, "Maid deleted successfully.", req[p].existing)]
  /\ UNCHANGED <<maids, users, menus, orders, instaxes, histories, seq, now, conc>>

-----------------------------------------------------------------------------
(* GET /api/users/seat/:seatId *)

(* WHERE seat_id = ? AND is_valid = true *)
SeatCandidates(seatId) ==
  {u \in DOMAIN users : users[u].seatId = seatId /\ users[u].isValid}

(* ORDER BY updated_at DESC, first row: a candidate no other candidate sorts after *)
FirstByUpdatedAtDesc(cands) ==
  {u \in cands : \A v \in cands : ~TextLess(users[u].updatedAt, users[v].updatedAt)}

GetUserBySeat(p, seatId) ==
  /\ CanStart(p)
  /\ LET r == Begin("GetUserBySeat", [seatId |-> seatId])
         first == FirstByUpdatedAtDesc(SeatCandidates(seatId))
     IN IF first = {}
          THEN req' = [req EXCEPT ![p] =
                 Respond(r, 404, "No active user found for the specified seat.", Null)]
          ELSE \E u \in first :
                 req' = [req EXCEPT ![p] = Respond(r, 200, "OK", u)]
  /\ UNCHANGED <<dbvars, seq, now, conc>>

-----------------------------------------------------------------------------
(* POST /api/orders *)

OrderStates == {"pending", "preparing", "served"}

(* order.user_id, order.menu_id: NOT NULL foreign keys *)
OrderFkOk(row) == row.userId \in DOMAIN users /\ row.menuId \in DOMAIN menus

(* state and the two timestamps take their column defaults *)
OrderInsertRow(userId, menuId, t) ==
  [userId |-> userId, menuId |-> menuId, state |-> "pending", updatedAt |-> SqlTimestamp(t)]

OrderCreate(p, userId, menuId) ==
  /\ CanStart(p)
  /\ seq.order < MaxOrders
  /\ LET r == Begin("OrderCreate", [user_id |-> userId, menu_id |-> menuId])
         id == seq.order + 1
         row == OrderInsertRow(userId, menuId, now)
     IN IF ~OrderFkOk(row)
          THEN /\ req' = [req EXCEPT ![p] = Uncaught(r)]
               /\ UNCHANGED <<orders, seq>>
          ELSE /\ orders' = (id :> row) @@ orders
               /\ seq' = [seq EXCEPT !.order = id]
               /\ req' = [req EXCEPT ![p] =
                            Respond(r, 201, "Order created successfully.", row)]
  /\ UNCHANGED <<maids, users, menus, instaxes, histories, blobs, now, conc>>

-----------------------------------------------------------------------------
(* PATCH /api/orders/:id *)

(* an update that never sees the state as unchanged *)
OrderStateNeverUnchanged(existing, state) == FALSE

(* existing.state === parsed.state *)
OrderStateUnchanged(existing, state) == existing.state = state

(* findFirst, then the same-state check *)
OrderUpdateFind(r) ==
  LET id == r.in.id
  IN IF id \notin DOMAIN orders
       THEN Respond(r, 404, "Order not found.", Null)
     ELSE IF OrderStateUnchanged(orders[id], r.in.state)
       THEN Respond(r, 200, "No changes applied.", orders[id])
       ELSE [pc |-> "write", existing |-> orders[id]] @@ r

OrderUpdateStart(p, id, state) ==
  /\ CanStart(p)
  /\ req' = [req EXCEPT ![p] =
               OrderUpdateFind(Begin("OrderUpdate", [id |-> id, state |-> state]))]
  /\ UNCHANGED <<dbvars, seq, now, conc>>

(* PATCH /api/orders/:id with the path parameter as sent *)
OrderUpdateRequest(p, idParam, state) ==
  /\ CanStart(p)
  /\ LET r == Begin("OrderUpdate", [id |-> ParseInt(idParam).value, idParam |-> idParam,
                                    state |-> state])
     IN req' = [req EXCEPT ![p] =
                  IF ~IsPositiveIdParam(idParam)
                    THEN Respond(r, 400, "Invalid order id.", Null)
                    ELSE OrderUpdateFind(r)]
  /\ UNCHANGED <<dbvars, seq, now, conc>>

OrderUpdateWrite(p) ==
  /\ req[p].op = "OrderUpdate" /\ req[p].pc = "write"
  /\ LET r == req[p]
         id == r.in.id
         row == IF id \in DOMAIN orders
                  THEN [orders[id] EXCEPT !.state = r.in.state, !.updatedAt = SqlTimestamp(now)]
                  ELSE [r.existing EXCEPT !.state = r.in.state]
     IN /\ orders' = IF id \in DOMAIN orders THEN [orders EXCEPT ![id] = row] ELSE orders
        /\ req' = [req EXCEPT ![p] = Respond(r, 200, "Order updated successfully.", row)]
  /\ UNCHANGED <<maids, users, menus, instaxes, histories, blobs, seq, now, conc>>

-----------------------------------------------------------------------------
(* POST /api/menus *)

(* description: trimmed, blank or absent becomes null *)
MenuDescription(body) ==
  IF "description" \in body.has /\ Len(Trim(body.description)) > 0
    THEN Trim(body.description) ELSE NullText

(* the inserted row: image_url is null until the upload is recorded *)
MenuInsertRow(body, t) ==
  [name |-> Trim(body.name), description |-> MenuDescription(body),
   stock |-> ParseInt(body.stock).value,
   imageUrl |-> NullKey, updatedAt |-> SqlTimestamp(t)]

(* menu_id of order: ON DELETE CASCADE *)
OrdersAfterMenuDelete(id) ==
  [o \in {j \in DOMAIN orders : orders[j].menuId # id} |-> orders[o]]

(* the checks on the multipart form, in the handler's order *)
MenuCreateFormError(body) ==
  IF "name" \notin body.has \/ Len(Trim(body.name)) = 0 THEN "Name is required."
  ELSE IF "stock" \notin body.has \/ Len(Trim(body.stock)) = 0 THEN "Stock is required."
  ELSE IF ParseInt(body.stock).nan \/ ParseInt(body.stock).value < 0
    THEN "Stock must be a non-negative integer."
  ELSE IF "image" \notin body.has THEN "Image file is required."
  ELSE NoError

(* the answer of a request that got as far as the INSERT; menuId, uploadedKey *)
(* are the handler's locals, failed records which await threw                *)
MenuCreateRespond(r, status, message, data) ==
  [menuId |-> r.menuId, uploadedKey |-> r.uploadedKey, failed |-> r.failed]
    @@ Respond(r, status, message, data)

MenuCreateStart(p, body) ==
  /\ CanStart(p)
  /\ LET r == Begin("MenuCreate", [body |-> body])
         err == MenuCreateFormError(body)
         id == seq.menu + 1
     IN IF err # NoError
          THEN /\ req' = [req EXCEPT ![p] = Respond(r, 400, err, Null)]
               /\ UNCHANGED <<menus, seq>>
          ELSE /\ seq.menu < MaxMenus
               /\ menus' = (id :> MenuInsertRow(body, now)) @@ menus
               /\ seq' = [seq EXCEPT !.menu = id]
               /\ req' = [req EXCEPT ![p] =
                            [pc |-> "upload", menuId |-> id, uploadedKey |-> NullKey,
                             failed |-> "none"] @@ r]
  /\ UNCHANGED <<maids, users, orders, instaxes, histories, blobs, now, conc>>

(* the INSERT throws: caught, answered 500, nothing stored *)
MenuCreateInsertFail(p, body) ==
  /\ CanStart(p)
  /\ MenuCreateFormError(body) = NoError
  /\ req' = [req EXCEPT ![p] =
               Respond(Begin("MenuCreate", [body |-> body]),
                       500, "Failed to create menu.", Null)]
  /\ UNCHANGED <<dbvars, seq, now, conc>>

MenuCreateUpload(p) ==
  /\ req[p].op = "MenuCreate" /\ req[p].pc = "upload"
  /\ seq.key < MaxKeys
  /\ blobs' = blobs \cup {FreshKey}
  /\ seq' = [seq EXCEPT !.key = FreshKey]
  /\ req' = [req EXCEPT ![p] = [pc |-> "update", uploadedKey |-> FreshKey] @@ req[p]]
  /\ UNCHANGED <<maids, users, menus, orders, instaxes, histories, now, conc>>

(* uploadR2Object throws: no object is stored, uploadedKey stays undefined *)
MenuCreateUploadFail(p) ==
  /\ req[p].op = "MenuCreate" /\ req[p].pc = "upload"
  /\ req' = [req EXCEPT ![p] = [pc |-> "rollback", failed |-> "upload"] @@ req[p]]
  /\ UNCHANGED <<dbvars, seq, now, conc>>

MenuCreateUpdate(p) ==
  /\ req[p].op = "MenuCreate" /\ req[p].pc = "update"
  /\ LET r == req[p]
         id == r.menuId
         row == IF id \in DOMAIN menus
                  THEN [menus[id] EXCEPT !.imageUrl = r.uploadedKey,
                                         !.updatedAt = SqlTimestamp(now)]
                  ELSE [MenuInsertRow(r.in.body, r.at) EXCEPT !.imageUrl = r.uploadedKey]
     IN /\ menus' = IF id \in DOMAIN menus THEN [menus EXCEPT ![id] = row] ELSE menus
        /\ req' = [req EXCEPT ![p] =
                     MenuCreateRespond(r, 201, "Menu created successfully.", row)]
  /\ UNCHANGED <<maids, users, orders, instaxes, histories, blobs, seq, now, conc>>

(* the follow-up UPDATE throws after the object was stored *)
MenuCreateUpdateFail(p) ==
  /\ req[p].op = "MenuCreate" /\ req[p].pc = "update"
  /\ req' = [req EXCEPT ![p] = [pc |-> "rollback", failed |-> "update"] @@ req[p]]
  /\ UNCHANGED <<dbvars, seq, now, conc>>

(* a catch block that forgets the uploaded object *)
RollbackSkipsBlob(r) == FALSE

(* if (uploadedKey): the catch block deletes the object only if one was stored *)
RollbackDeletesBlob(r) == r.uploadedKey # NullKey

(* catch: delete the inserted row *)
MenuCreateRollbackRow(p) ==
  /\ req[p].op = "MenuCreate" /\ req[p].pc = "rollback"
  /\ menus' = Remove(menus, req[p].menuId)
  /\ orders' = OrdersAfterMenuDelete(req[p].menuId)
  /\ req' = [req EXCEPT ![p] =
               IF RollbackDeletesBlob(req[p])
                 THEN [req[p] EXCEPT !.pc = "rollblob"]
                 ELSE MenuCreateRespond(req[p], 500, "Failed to create menu.", Null)]
  /\ UNCHANGED <<maids, users, instaxes, histories, blobs, seq, now, conc>>

(* catch: delete the orphaned object, answer 500 *)
MenuCreateRollbackBlob(p) ==
  /\ req[p].op = "MenuCreate" /\ req[p].pc = "rollblob"
  /\ blobs' = deleteR2Object(blobs, req[p].uploadedKey)
  /\ req' = [req EXCEPT ![p] =
               MenuCreateRespond(req[p], 500, "Failed to create menu.", Null)]
  /\ UNCHANGED <<maids, users, menus, orders, instaxes, histories, seq, now, conc>>

-----------------------------------------------------------------------------
(* DELETE /api/menus/:id *)

(* the handler up to its first write, entered with the slot r *)
MenuDeleteFind(r) ==
  IF r.in.id \notin DOMAIN menus
    THEN Respond(r, 404, "Menu not found.", Null)
    ELSE [pc |-> "delete", existing |-> menus[r.in.id]] @@ r

MenuDeleteStart(p, id) ==
  /\ CanStart(p)
  /\ req' = [req EXCEPT ![p] = MenuDeleteFind(Begin("MenuDelete", [id |-> id]))]
  /\ UNCHANGED <<dbvars, seq, now, conc>>

-----------------------------------------------------------------------------
(* adminApiAuthMiddleware in front of DELETE /api/menus/:id *)

(* c.env.ADMIN_API_PASSWORD when it is not set *)
NoSecret == ""

(* a middleware that only checks that a header was sent *)
adminApiAuthAnyHeader(secret, header) ==
  IF secret = NoSecret THEN "misconfigured"
  ELSE IF header = Null THEN "unauthorized"
  ELSE "next"

(* header is the x-api-key header, Null when the request has none *)
adminApiAuthMiddleware(secret, header) ==
  IF secret = NoSecret THEN "misconfigured"
  ELSE IF header # secret THEN "unauthorized"
  ELSE "next"

AdminMenuDelete(p, id, secret, header) ==
  /\ CanStart(p)
  /\ LET r == Begin("MenuDelete", [id |-> id, secret |-> secret, header |-> header])
         verdict == adminApiAuthMiddleware(secret, header)
     IN req' = [req EXCEPT ![p] =
                  IF verdict = "misconfigured"
                    THEN Respond(r, 500, "Admin API password is not configured on the server.",
                                 Null)
                  ELSE IF verdict = "unauthorized"
                    THEN Respond(r, 401, "Unauthorized: Missing or invalid x-api-key header.",
                                 Null)
                    ELSE MenuDeleteFind(r)]
  /\ UNCHANGED <<dbvars, seq, now, conc>>

MenuDeleteRow(p) ==
  /\ req[p].op = "MenuDelete" /\ req[p].pc = "delete"
  /\ menus' = Remove(menus, req[p].in.id)
  /\ orders' = OrdersAfterMenuDelete(req[p].in.id)
  /\ req' = [req EXCEPT ![p].pc = "blob"]
  /\ UNCHANGED <<maids, users, instaxes, histories, blobs, seq, now, conc>>

MenuDeleteBlob(p) ==
  /\ req[p].op = "MenuDelete" /\ req[p].pc = "blob"
  /\ blobs' = deleteR2Object(blobs, req[p].existing.imageUrl)
  /\ req' = [req EXCEPT ![p] =
               Respond(req[p], 200, "Menu deleted successfully.", req[p].existing)]
  /\ UNCHANGED <<maids, users, menus, orders, instaxes, histories, seq, now, conc>>

-----------------------------------------------------------------------------
(* createInstaxRecord: upload the file, then insert the instax row *)

(* instax.user_id, instax.maid_id: both must reference stored rows *)
InstaxFkOk(row) == row.userId \in DOMAIN users /\ row.maidId \in DOMAIN maids

InstaxInsertRow(userId, maidId, key, t) ==
  [userId |-> userId, maidId |-> maidId, imageUrl |-> key, createdAt |-> SqlTimestamp(t)]

InstaxOps == {"InstaxCreate", "InstaxCreateBySeat"}

createInstaxRecordUpload(p) ==
  /\ req[p].op \in InstaxOps /\ req[p].pc = "upload"
  /\ seq.key < MaxKeys
  /\ blobs' = blobs \cup {FreshKey}
  /\ seq' = [seq EXCEPT !.key = FreshKey]
  /\ req' = [req EXCEPT ![p] = [pc |-> "insert", key |-> FreshKey] @@ req[p]]
  /\ UNCHANGED <<maids, users, menus, orders, instaxes, histories, now, conc>>

createInstaxRecordInsert(p) ==
  /\ req[p].op \in InstaxOps /\ req[p].pc = "insert"
  /\ LET r == req[p]
         id == seq.instax + 1
         row == InstaxInsertRow(r.userId, r.in.maidId, r.key, now)
     IN IF ~InstaxFkOk(row)
          THEN /\ req' = [req EXCEPT ![p] = Uncaught(r)]
               /\ UNCHANGED <<instaxes, seq>>
          ELSE /\ seq.instax < MaxInstax
               /\ instaxes' = (id :> row) @@ instaxes
               /\ seq' = [seq EXCEPT !.instax = id]
               /\ req' = [req EXCEPT ![p] =
                            [instaxId |-> id]
                              @@ Respond(r, 201, "Instax created successfully.", row)]
  /\ UNCHANGED <<maids, users, menus, orders, histories, blobs, now, conc>>

(* POST /api/instax *)
InstaxCreate(p, userId, maidId) ==
  /\ CanStart(p)
  /\ req' = [req EXCEPT ![p] =
               [pc |-> "upload", userId |-> userId]
                 @@ Begin("InstaxCreate", [userId |-> userId, maidId |-> maidId])]
  /\ UNCHANGED <<dbvars, seq, now, conc>>

(* POST /api/instax/by-seat: latestUser is the first row of the same query   *)
(* GET /api/users/seat/:seatId runs                                          *)
InstaxCreateBySeat(p, seatId, maidId) ==
  /\ CanStart(p)
  /\ LET r == Begin("InstaxCreateBySeat", [seatId |-> seatId, maidId |-> maidId])
         first == FirstByUpdatedAtDesc(SeatCandidates(seatId))
     IN IF first = {}
          THEN req' = [req EXCEPT ![p] =
                 Respond(r, 404, "No active user found for the provided seat.", Null)]
          ELSE \E u \in first :
                 req' = [req EXCEPT ![p] = [pc |-> "upload", userId |-> u] @@ r]
  /\ UNCHANGED <<dbvars, seq, now, conc>>

-----------------------------------------------------------------------------
(* PATCH /api/instax *)

(* an archive step that records the key of the new upload *)
ArchivedKeyIsNewKey(existing, key) == key

(* previousImageKey: the key the history row carries *)
ArchivedKey(existing, key) == existing.imageUrl

InstaxHistoryRow(instaxId, imageUrl, t) ==
  [instaxId |-> instaxId, imageUrl |-> imageUrl, archivedAt |-> SqlTimestamp(t)]

InstaxUpdateStart(p, id) ==
  /\ CanStart(p)
  /\ LET r == Begin("InstaxUpdate", [id |-> id])
     IN req' = [req EXCEPT ![p] =
                  IF id \notin DOMAIN instaxes
                    THEN Respond(r, 404, "Instax not found.", Null)
                    ELSE [pc |-> "upload", existing |-> instaxes[id]] @@ r]
  /\ UNCHANGED <<dbvars, seq, now, conc>>

InstaxUpdateUpload(p) ==
  /\ req[p].op = "InstaxUpdate" /\ req[p].pc = "upload"
  /\ seq.key < MaxKeys
  /\ blobs' = blobs \cup {FreshKey}
  /\ seq' = [seq EXCEPT !.key = FreshKey]
  /\ req' = [req EXCEPT ![p] =
               [pc |-> IF req[p].existing.imageUrl # NullKey THEN "archive" ELSE "update",
                key |-> FreshKey] @@ req[p]]
  /\ UNCHANGED <<maids, users, menus, orders, instaxes, histories, now, conc>>

(* if (previousImageKey): INSERT INTO instax_history *)
InstaxUpdateArchive(p) ==
  /\ req[p].op = "InstaxUpdate" /\ req[p].pc = "archive"
  /\ LET r == req[p]
         h == seq.history + 1
     IN IF r.in.id \notin DOMAIN instaxes
          THEN /\ req' = [req EXCEPT ![p] = Uncaught(r)]
               /\ UNCHANGED <<histories, seq>>
          ELSE /\ seq.history < MaxHist
               /\ histories' =
                    (h :> InstaxHistoryRow(r.in.id, ArchivedKey(r.existing, r.key), now))
                      @@ histories
               /\ seq' = [seq EXCEPT !.history = h]
               /\ req' = [req EXCEPT ![p].pc = "update"]
  /\ UNCHANGED <<maids, users, menus, orders, instaxes, blobs, now, conc>>

InstaxUpdateWrite(p) ==
  /\ req[p].op = "InstaxUpdate" /\ req[p].pc = "update"
  /\ LET r == req[p]
         id == r.in.id
         row == IF id \in DOMAIN instaxes
                  THEN [instaxes[id] EXCEPT !.imageUrl = r.key]
                  ELSE [r.existing EXCEPT !.imageUrl = r.key]
     IN /\ instaxes' = IF id \in DOMAIN instaxes
                         THEN [instaxes EXCEPT ![id] = row] ELSE instaxes
        /\ req' = [req EXCEPT ![p] =
                     [existing |-> r.existing, key |-> r.key]
                       @@ Respond(r, 200, "Instax updated successfully.", row)]
  /\ UNCHANGED <<maids, users, menus, orders, histories, blobs, seq, now, conc>>

-----------------------------------------------------------------------------
(* GET /api/maids/:id/users *)

(* String.prototype.toLowerCase on one character *)
LowerChar(c) ==
  CASE c = "L" -> "l" [] c = "E" -> "e" [] c = "A" -> "a" [] c = "V" -> "v"
    [] c = "I" -> "i" [] c = "N" -> "n" [] c = "G" -> "g" [] c = "X" -> "x"
    [] OTHER -> c

ToLowerCase(s) == [i \in 1..Len(s) |-> LowerChar(s[i])]

Leaving == <<"l", "e", "a", "v", "i", "n", "g">>

(* a comparison that forgets to lower-case *)
deriveEngagementStateCaseSensitive(status) ==
  IF status = NullText \/ status = << >> THEN "serving"
  ELSE IF Trim(status) = Leaving THEN "leaving" ELSE "serving"

deriveEngagementState(status) ==
  IF status = NullText \/ status = << >> THEN "serving"
  ELSE IF ToLowerCase(Trim(status)) = Leaving THEN "leaving" ELSE "serving"

(* maidEngagementFilterSchema *)
EngagementFilters == {"serving", "leaving", "both"}

(* an absent or blank status query means both *)
StatusInput(query) == IF query = "" THEN "both" ELSE query

(* WHERE maid_id = ? AND is_valid = true *)
AssignedUsers(maidId) ==
  {u \in DOMAIN users : users[u].maidId = maidId /\ users[u].isValid}

ListAssignedStart(p, id, query) ==
  /\ CanStart(p)
  /\ LET r == Begin("ListAssigned", [id |-> id, query |-> query])
     IN req' = [req EXCEPT ![p] =
                  IF StatusInput(query) \notin EngagementFilters
                    THEN Respond(r, 400, "Invalid status filter. Use serving, leaving, or both.",
                                 Null)
                  ELSE IF id \notin DOMAIN maids
                    THEN Respond(r, 404, "Maid not found.", Null)
                    ELSE [r EXCEPT !.pc = "users"]]
  /\ UNCHANGED <<dbvars, seq, now, conc>>

ListAssignedQuery(p) ==
  /\ req[p].op = "ListAssigned" /\ req[p].pc = "users"
  /\ req' = [req EXCEPT ![p] =
               [pc |-> "instax",
                assignedUsers |-> [u \in AssignedUsers(req[p].in.id) |-> users[u]]] @@ req[p]]
  /\ UNCHANGED <<dbvars, seq, now, conc>>

(* fetchLatestInstaxIdsForUsers, then map and filter *)
ListAssignedRespond(p) ==
  /\ req[p].op = "ListAssigned" /\ req[p].pc = "instax"
  /\ LET r == req[p]
         f == StatusInput(r.in.query)
         usersByFilter ==
           {[id |-> u, engagement_state |-> deriveEngagementState(r.assignedUsers[u].status)] :
              u \in {v \in DOMAIN r.assignedUsers :
                       f = "both" \/ deriveEngagementState(r.assignedUsers[v].status) = f}}
     IN req' = [req EXCEPT ![p] = Respond(r, 200, "OK", usersByFilter)]
  /\ UNCHANGED <<dbvars, seq, now, conc>>

-----------------------------------------------------------------------------
(* PATCH /api/maids/:id/active *)

MaidToggleStart(p, id, isActive) ==
  /\ CanStart(p)
  /\ LET r == Begin("MaidToggle", [id |-> id, is_active |-> isActive])
     IN req' = [req EXCEPT ![p] =
                  IF id \notin DOMAIN maids
                    THEN Respond(r, 404, "Maid not found.", Null)
                    ELSE [pc |-> "update", existing |-> maids[id]] @@ r]
  /\ UNCHANGED <<dbvars, seq, now, conc>>

MaidToggleWrite(p) ==
  /\ req[p].op = "MaidToggle" /\ req[p].pc = "update"
  /\ LET r == req[p]
         id == r.in.id
         row == IF id \in DOMAIN maids
                  THEN [maids[id] EXCEPT !.isActive = r.in.is_active]
                  ELSE [r.existing EXCEPT !.isActive = r.in.is_active]
     IN /\ maids' = IF id \in DOMAIN maids THEN [maids EXCEPT ![id] = row] ELSE maids
        /\ req' = [req EXCEPT ![p] = Respond(r, 200, "Maid active flag updated.", row)]
  /\ UNCHANGED <<users, menus, orders, instaxes, histories, blobs, seq, now, conc>>

-----------------------------------------------------------------------------
(* GET /api/maids *)

(* the is_active query values read as true and as false; "absent" stands for *)
(* a request without the parameter                                           *)
ActiveTrueWords == {"true", "1", "yes"}
ActiveFalseWords == {"false", "0", "no"}

(* a filter that is parsed and then not applied *)
MaidListRowsUnfiltered(query) == DOMAIN maids

(* SELECT ... WHERE is_active = ? (no WHERE without the parameter) *)
MaidListRows(query) ==
  IF query = "absent" THEN DOMAIN maids
  ELSE {m \in DOMAIN maids : maids[m].isActive = (query \in ActiveTrueWords)}

(* ORDER BY id: the number of selected rows that come before m *)
MaidRank(m, rows) == Cardinality({k \in rows : k = "m1" /\ m = "m2"})

(* LIMIT per OFFSET (page - 1) * per *)
MaidListPage(rows, page, per) ==
  {m \in rows : MaidRank(m, rows) >= (page - 1) * per /\ MaidRank(m, rows) < page * per}

MaidList(p, query, page, per) ==
  /\ CanStart(p)
  /\ LET r == Begin("MaidList", [query |-> query, page |-> page, per |-> per])
     IN req' = [req EXCEPT ![p] =
                  IF page < 1 \/ per < 1 \/ per > 100
                    THEN Respond(r, 400, "Invalid pagination parameters.", Null)
                  ELSE IF query \notin ActiveTrueWords \cup ActiveFalseWords \cup {"absent"}
                    THEN Respond(r, 400, "Invalid is_active parameter. Use true/false.", Null)
                    ELSE Respond(r, 200, "OK",
                                 {[id |-> m, is_active |-> maids[m].isActive] :
                                    m \in MaidListPage(MaidListRows(query), page, per)})]
  /\ UNCHANGED <<dbvars, seq, now, conc>>

-----------------------------------------------------------------------------
(* PATCH /api/menus/:id *)

(* What the handler's input parsing yields: name is <<>> when the request    *)
(* resolves to no name, description is the trimmed text or null.             *)
ParsedMenu(err, name, hasStock, stock, hasDescription, description, image) ==
  [err |-> err, name |-> name, hasStock |-> hasStock, stock |-> stock,
   hasDescription |-> hasDescription, description |-> description, image |-> image]

MenuParseError(err) == ParsedMenu(err, << >>, FALSE, 0, FALSE, NullText, FALSE)

(* trimmed, blank becomes null *)
TrimmedOrNull(text) == IF Len(Trim(text)) > 0 THEN Trim(text) ELSE NullText

(* a JSON number is carried in tenths: stock10 = 15 is the number 1.5 *)
Tenths == 10

(* multipart: trimmed non-blank name, parseInt of a non-blank stock text,    *)
(* description, non-empty image file, at least one of them;                  *)
(* JSON: updateMenuJsonBodySchema (name of at least one character, integer   *)
(* stock of at least 0, description, at least one of the three)              *)
ParseMenuUpdate(body) ==
  IF body.ct = "multipart"
    THEN LET name == IF "name" \in body.has THEN Trim(body.name) ELSE << >>
             hasStock == "stock" \in body.has /\ Len(Trim(body.stock)) > 0
             parsedStock == IF hasStock THEN ParseInt(body.stock) ELSE [nan |-> FALSE, value |-> 0]
             hasDescription == "description" \in body.has
         IN IF hasStock /\ (parsedStock.nan \/ parsedStock.value < 0)
              THEN MenuParseError("Stock must be a non-negative integer.")
            ELSE IF name = << >> /\ ~hasStock /\ "image" \notin body.has /\ ~hasDescription
              THEN MenuParseError("No updatable fields provided.")
              ELSE ParsedMenu(NoError, name, hasStock, parsedStock.value, hasDescription,
                              IF hasDescription THEN TrimmedOrNull(body.description)
                                                ELSE NullText,
                              "image" \in body.has)
    ELSE IF \/ ("name" \in body.has /\ Len(body.name) < 1)
            \/ ("stock" \in body.has /\ (body.stock10 % Tenths # 0 \/ body.stock10 < 0))
            \/ body.has \cap {"name", "stock", "description"} = {}
      THEN MenuParseError("Invalid request body.")
      ELSE ParsedMenu(NoError,
                      IF "name" \in body.has THEN Trim(body.name) ELSE << >>,
                      "stock" \in body.has,
                      IF "stock" \in body.has THEN body.stock10 \div Tenths ELSE 0,
                      "description" \in body.has,
                      IF "description" \in body.has THEN TrimmedOrNull(body.description)
                                                    ELSE NullText,
                      FALSE)

(* an update that resets the description whenever it is not supplied *)
ApplyMenuUpdateClearingDescription(stored, parsed, key) ==
  [stored EXCEPT
     !.name = IF parsed.name # << >> THEN parsed.name ELSE @,
     !.stock = IF parsed.hasStock THEN parsed.stock ELSE @,
     !.description = parsed.description,
     !.imageUrl = IF parsed.image THEN key ELSE @]

(* updateValues laid over a row; key is the uploaded image's key, if any *)
ApplyMenuUpdate(stored, parsed, key) ==
  [stored EXCEPT
     !.name = IF parsed.name # << >> THEN parsed.name ELSE @,
     !.stock = IF parsed.hasStock THEN parsed.stock ELSE @,
     !.description = IF parsed.hasDescription THEN parsed.description ELSE @,
     !.imageUrl = IF parsed.image THEN key ELSE @]

(* Object.keys(updateValues).length === 0 *)
MenuUpdateEmpty(parsed) ==
  parsed.name = << >> /\ ~parsed.hasStock /\ ~parsed.hasDescription /\ ~parsed.image

(* the parsed body, then findFirst, then the no-op check *)
MenuUpdateFind(r) ==
  LET id == r.in.id
      parsed == ParseMenuUpdate(r.in.body)
  IN IF parsed.err # NoError THEN Respond(r, 400, parsed.err, Null)
     ELSE IF id \notin DOMAIN menus
       THEN Respond(r, 404, "Menu not found.", Null)
     ELSE IF parsed.image
       THEN [pc |-> "upload", parsed |-> parsed, existing |-> menus[id],
             key |-> NullKey] @@ r
     ELSE IF MenuUpdateEmpty(parsed)
       THEN Respond(r, 200, "No changes applied.", menus[id])
       ELSE [pc |-> "write", parsed |-> parsed, existing |-> menus[id],
             key |-> NullKey] @@ r

MenuUpdateStart(p, id, body) ==
  /\ CanStart(p)
  /\ req' = [req EXCEPT ![p] =
               MenuUpdateFind(Begin("MenuUpdate", [id |-> id, body |-> body]))]
  /\ UNCHANGED <<dbvars, seq, now, conc>>

(* PATCH /api/menus/:id with the path parameter as sent *)
MenuUpdateRequest(p, idParam, body) ==
  /\ CanStart(p)
  /\ LET r == Begin("MenuUpdate", [id |-> ParseInt(idParam).value, idParam |-> idParam,
                                   body |-> body])
     IN req' = [req EXCEPT ![p] =
                  IF ~IsPositiveIdParam(idParam)
                    THEN Respond(r, 400, "Invalid menu id.", Null)
                    ELSE MenuUpdateFind(r)]
  /\ UNCHANGED <<dbvars, seq, now, conc>>

MenuUpdateUpload(p) ==
  /\ req[p].op = "MenuUpdate" /\ req[p].pc = "upload"
  /\ seq.key < MaxKeys
  /\ blobs' = blobs \cup {FreshKey}
  /\ seq' = [seq EXCEPT !.key = FreshKey]
  /\ req' = [req EXCEPT ![p].pc = "deleteOld", ![p].key = FreshKey]
  /\ UNCHANGED <<maids, users, menus, orders, instaxes, histories, now, conc>>

MenuUpdateDeleteOld(p) ==
  /\ req[p].op = "MenuUpdate" /\ req[p].pc = "deleteOld"
  /\ blobs' = deleteR2Object(blobs, req[p].existing.imageUrl)
  /\ req' = [req EXCEPT ![p].pc = "write"]
  /\ UNCHANGED <<maids, users, menus, orders, instaxes, histories, seq, now, conc>>

MenuUpdateWrite(p) ==
  /\ req[p].op = "MenuUpdate" /\ req[p].pc = "write"
  /\ LET r == req[p]
         id == r.in.id
         base == IF id \in DOMAIN menus THEN menus[id] ELSE r.existing
         row == IF id \in DOMAIN menus
                  THEN [ApplyMenuUpdate(base, r.parsed, r.key)
                          EXCEPT !.updatedAt = SqlTimestamp(now)]
                  ELSE ApplyMenuUpdate(base, r.parsed, r.key)
     IN /\ menus' = IF id \in DOMAIN menus THEN [menus EXCEPT ![id] = row] ELSE menus
        /\ req' = [req EXCEPT ![p] =
                     [key |-> r.key] @@ Respond(r, 200, "Menu updated successfully.", row)]
  /\ UNCHANGED <<maids, users, orders, instaxes, histories, blobs, seq, now, conc>>

-----------------------------------------------------------------------------
(* GET /api/users/:id *)

(* A lookup that treats an invalidated visitor as absent. *)
UserGetHidingInvalid(p, id) ==
  /\ CanStart(p)
  /\ LET r == Begin("UserGet", [id |-> id])
     IN req' = [req EXCEPT ![p] =
                  IF id \notin DOMAIN users \/ ~users[id].isValid
                    THEN Respond(r, 404, "User not found.", Null)
                    ELSE Respond(r, 200, "OK", users[id])]
  /\ UNCHANGED <<dbvars, seq, now, conc>>

UserGet(p, id) ==
  /\ CanStart(p)
  /\ LET r == Begin("UserGet", [id |-> id])
     IN req' = [req EXCEPT ![p] =
                  IF id \notin DOMAIN users
                    THEN Respond(r, 404, "User not found.", Null)
                    ELSE Respond(r, 200, "OK", users[id])]
  /\ UNCHANGED <<dbvars, seq, now, conc>>

-----------------------------------------------------------------------------
(* DELETE /api/admin/instax/history/:id *)

(* a delete that clears every archived row of the same instax record *)
HistoriesAfterDeleteOfInstax(rows, h) ==
  [k \in {j \in DOMAIN rows : rows[j].instaxId # rows[h].instaxId} |-> rows[k]]

(* db.delete(instaxHistories).where(eq(instaxHistories.id, historyId)) *)
HistoriesAfterDelete(rows, h) ==
  [k \in DOMAIN rows \ {h} |-> rows[k]]

(* instaxHistories innerJoin instaxes where instaxHistories.id = historyId *)
HistoryJoined(h) ==
  h \in DOMAIN histories /\ histories[h].instaxId \in DOMAIN instaxes

InstaxHistoryDeleteStart(p, idParam) ==
  /\ CanStart(p)
  /\ LET r == Begin("InstaxHistoryDelete", [id |-> idParam])
         h == ParseInt(idParam).value
     IN req' = [req EXCEPT ![p] =
                  IF ~IsPositiveIdParam(idParam)
                    THEN Respond(r, 400, "Invalid instax history id.", Null)
                    ELSE IF ~HistoryJoined(h)
                      THEN Respond(r, 404, "Instax history not found.", Null)
                      ELSE [pc |-> "row", historyId |-> h, existing |-> histories[h]] @@ r]
  /\ UNCHANGED <<dbvars, seq, now, conc>>

InstaxHistoryDeleteRow(p) ==
  /\ req[p].op = "InstaxHistoryDelete" /\ req[p].pc = "row"
  /\ histories' = IF req[p].historyId \in DOMAIN histories
                    THEN HistoriesAfterDelete(histories, req[p].historyId)
                    ELSE histories
  /\ req' = [req EXCEPT ![p].pc = "blob"]
  /\ UNCHANGED <<maids, users, menus, orders, instaxes, blobs, seq, now, conc>>

InstaxHistoryDeleteBlob(p) ==
  /\ req[p].op = "InstaxHistoryDelete" /\ req[p].pc = "blob"
  /\ blobs' = deleteR2Object(blobs, req[p].existing.imageUrl)
  /\ req' = [req EXCEPT ![p] =
               [historyId |-> req[p].historyId, existing |-> req[p].existing]
                 @@ Respond(req[p], 200, "Instax history deleted successfully.",
                            req[p].existing)]
  /\ UNCHANGED <<maids, users, menus, orders, instaxes, histories, seq, now, conc>>

-----------------------------------------------------------------------------
(* GET /api/maids/:id *)

HexChars == {"0", "1", "2", "3", "4", "5", "6", "7", "8", "9",
             "a", "b", "c", "d", "e", "f", "A", "B", "C", "D", "E", "F"}

UuidDashAt == {9, 14, 19, 24}

(* a check that looks at the length only *)
IsUuidByLength(text) == Len(text) = 36

(* z.string().uuid(): 8-4-4-4-12 hexadecimal digits *)
IsUuid(text) ==
  /\ Len(text) = 36
  /\ \A i \in 1..36 : IF i \in UuidDashAt THEN text[i] = "-" ELSE text[i] \in HexChars

Rep(c, n) == [i \in 1..n |-> c]

(* the uuid text a stored id stands for: the last digit tells the ids apart *)
UuidOf(id) ==
  Rep("0", 8) \o <<"-">> \o Rep("0", 4) \o <<"-", "4">> \o Rep("0", 3)
    \o <<"-", "8">> \o Rep("0", 3) \o <<"-">> \o Rep("0", 11)
    \o (IF id = "m1" THEN <<"1">> ELSE IF id = "m2" THEN <<"2">> ELSE <<"f">>)

(* the stored id a path parameter names, if any *)
MaidIdOf(text) ==
  IF \E m \in MaidIds : UuidOf(m) = text
    THEN CHOOSE m \in MaidIds : UuidOf(m) = text
    ELSE Null

MaidGet(p, idParam) ==
  /\ CanStart(p)
  /\ LET r == Begin("MaidGet", [id |-> MaidIdOf(idParam), idParam |-> idParam])
     IN req' = [req EXCEPT ![p] =
                  IF ~IsUuid(idParam)
                    THEN Respond(r, 400, "Invalid maid id.", Null)
                  ELSE IF r.in.id \notin DOMAIN maids
                    THEN Respond(r, 404, "Maid not found.", Null)
                    ELSE Respond(r, 200, "OK", maids[r.in.id])]
  /\ UNCHANGED <<dbvars, seq, now, conc>>

-----------------------------------------------------------------------------
(* deleteR2Object throws after the row was deleted: nothing catches it *)

MaidDeleteBlobFail(p) ==
  /\ req[p].op = "MaidDelete" /\ req[p].pc = "blob"
  /\ req[p].existing.imageUrl # NullKey
  /\ req' = [req EXCEPT ![p] = Uncaught(req[p])]
  /\ UNCHANGED <<dbvars, seq, now, conc>>

MenuDeleteBlobFail(p) ==
  /\ req[p].op = "MenuDelete" /\ req[p].pc = "blob"
  /\ req[p].existing.imageUrl # NullKey
  /\ req' = [req EXCEPT ![p] = Uncaught(req[p])]
  /\ UNCHANGED <<dbvars, seq, now, conc>>

-----------------------------------------------------------------------------
(* PATCH /api/instax: one of the awaits throws; nothing catches it and       *)
(* nothing done so far is undone                                             *)

InstaxUpdateUploadFail(p) ==
  /\ req[p].op = "InstaxUpdate" /\ req[p].pc = "upload"
  /\ req' = [req EXCEPT ![p] = Uncaught(req[p])]
  /\ UNCHANGED <<dbvars, seq, now, conc>>

InstaxUpdateArchiveFail(p) ==
  /\ req[p].op = "InstaxUpdate" /\ req[p].pc = "archive"
  /\ req' = [req EXCEPT ![p] = Uncaught(req[p])]
  /\ UNCHANGED <<dbvars, seq, now, conc>>

InstaxUpdateWriteFail(p) ==
  /\ req[p].op = "InstaxUpdate" /\ req[p].pc = "update"
  /\ req' = [req EXCEPT ![p] = Uncaught(req[p])]
  /\ UNCHANGED <<dbvars, seq, now, conc>>

-----------------------------------------------------------------------------
(* Initial states *)

EmptyDb ==
  /\ maids = << >>
  /\ users = << >>
  /\ menus = << >>
  /\ orders = << >>
  /\ instaxes = << >>
  /\ histories = << >>
  /\ blobs = {}
  /\ seq = [key |-> 0, menu |-> 0, order |-> 0, instax |-> 0, history |-> 0]
  /\ now = 0
  /\ req = [p \in Procs |-> Idle]

-----------------------------------------------------------------------------
(* Request bodies the specifications draw from *)

NoStatus == [has |-> {}]

UserCreateBodies(seats, statuses) ==
  {[has |-> {}, seat_id |-> st, maid_id |-> m] : st \in seats, m \in MaidIds}
  \cup {[has |-> {"status"}, seat_id |-> st, maid_id |-> m, status |-> x] :
          st \in seats, m \in MaidIds, x \in statuses}

NameBodies == {[has |-> {"name"}, name |-> <<"A">>]}

MaidRefBodies ==
  {[has |-> {"maid_id"}, maid_id |-> m] : m \in MaidIds \cup {Null}}
  \cup {[has |-> {"instax_maid_id"}, instax_maid_id |-> m] : m \in MaidIds \cup {Null}}
  \cup {[has |-> {"maid_id", "instax_maid_id"}, maid_id |-> "m1", instax_maid_id |-> m] :
          m \in MaidIds}

ValidBodies == {[has |-> {"is_valid"}, is_valid |-> b] : b \in BOOLEAN}

StatusBodies == {[has |-> {"status"}, status |-> x] : x \in {NullText, <<"x">>}}

SeatBodies(seats) == {[has |-> {"seat_id"}, seat_id |-> st] : st \in seats \cup {NullSeat}}

EmptyBody == [has |-> {}]

-----------------------------------------------------------------------------
(* Registration desk, one request at a time: maids are created and deleted,  *)
(* one visitor id is registered, re-registered and updated.                  *)

Init ==
  /\ EmptyDb
  /\ conc = 1

Next ==
  \/ \E p \in Procs, id \in MaidIds : MaidCreateStart(p, id, EmptyBody)
  \/ \E p \in Procs : MaidCreateInsert(p)
  \/ \E p \in Procs, id \in MaidIds : MaidDeleteStart(p, id)
  \/ \E p \in Procs : MaidDeleteRow(p)
  \/ \E p \in Procs : MaidDeleteBlob(p)
  \/ \E p \in Procs, id \in {"u1"}, body \in UserCreateBodies({1}, {<<"x">>}) :
       UserCreateStart(p, id, body)
  \/ \E p \in Procs : UserCreateFind(p)
  \/ \E p \in Procs : UserCreateUpdate(p)
  \/ \E p \in Procs : UserCreateInsert(p)
  \/ \E p \in Procs, id \in {"u1", "u2"},
        body \in NameBodies \cup MaidRefBodies \cup ValidBodies \cup StatusBodies :
       UserUpdateStart(p, id, body)
  \/ \E p \in Procs : UserUpdateValidateMaid(p)
  \/ \E p \in Procs : UserUpdateValidateInstaxMaid(p)
  \/ \E p \in Procs : UserUpdateWrite(p)
  \/ \E p \in Procs : Finish(p)

Spec == Init /\ [][Next]_vars

Ended(p, op) == req[p].pc = "done" /\ req[p].op = op

-----------------------------------------------------------------------------
(* C1: a User create on an id that already has a row (naming an existing     *)
(* maid) succeeds, and afterwards the stored row has the request's maid_id   *)
(* and seat_id, instax_maid_id null, is_valid true, and the name it had      *)
(* before the call; its status is kept when the request carries none.        *)
C1_ReRegisterKeepsName ==
  \A p \in Procs :
    (/\ Ended(p, "UserCreate")
     /\ req[p].in.id \in DOMAIN req[p].pre.users
     /\ req[p].in.body.maid_id \in DOMAIN req[p].pre.maids)
    => LET id == req[p].in.id
           body == req[p].in.body
           before == req[p].pre.users[id]
       IN /\ req[p].status = 200
          /\ id \in DOMAIN users
          /\ users[id].maidId = body.maid_id
          /\ users[id].seatId = body.seat_id
          /\ users[id].instaxMaidId = Null
          /\ users[id].isValid
          /\ users[id].name = before.name
          /\ ("status" \notin body.has => users[id].status = before.status)

(* a re-register of a named, invalidated visitor who had an instax maid *)
C1_Witness ==
  \E p \in Procs :
    /\ Ended(p, "UserCreate")
    /\ req[p].status = 200
    /\ req[p].in.id \in DOMAIN req[p].pre.users
    /\ LET before == req[p].pre.users[req[p].in.id]
       IN /\ before.name = <<"A">>
          /\ before.instaxMaidId # Null
          /\ ~before.isValid
          /\ before.status # NullText
          /\ before.maidId # req[p].in.body.maid_id
          /\ "status" \notin req[p].in.body.has

-----------------------------------------------------------------------------
OffendingMaid(body, field, maidTable) ==
  field \in body.has /\ body[field] # Null /\ body[field] \notin DOMAIN maidTable

ReferenceError(field) == field \o " does not reference an existing maid."

(* the response is the 400 reference error and it names a field that offends *)
IsReferenceError(r, fields) ==
  /\ r.status = 400
  /\ \E f \in fields : r.message = ReferenceError(f) /\ OffendingMaid(r.in.body, f, r.pre.maids)

(* C2 as stated: a User create or a User update that names a maid that does  *)
(* not exist is answered with the 400 reference error naming the field, and  *)
(* the user table is as it was.                                              *)
C2_Original ==
  \A p \in Procs :
    /\ (Ended(p, "UserCreate") /\ OffendingMaid(req[p].in.body, "maid_id", req[p].pre.maids))
         => IsReferenceError(req[p], {"maid_id"}) /\ users = req[p].pre.users
    /\ (/\ Ended(p, "UserUpdate")
        /\ \E f \in {"maid_id", "instax_maid_id"} : OffendingMaid(req[p].in.body, f, req[p].pre.maids))
         => IsReferenceError(req[p], {"maid_id", "instax_maid_id"}) /\ users = req[p].pre.users

(* C2 amended: the same for a User create and for a User update of a user    *)
(* that exists; an update of a user that does not exist is answered 404.     *)
(* The user table is as it was in every one of these cases.                  *)
C2_ReferenceErrorNoWrite ==
  \A p \in Procs :
    /\ (Ended(p, "UserCreate") /\ OffendingMaid(req[p].in.body, "maid_id", req[p].pre.maids))
         => IsReferenceError(req[p], {"maid_id"}) /\ users = req[p].pre.users
    /\ (/\ Ended(p, "UserUpdate")
        /\ \E f \in {"maid_id", "instax_maid_id"} : OffendingMaid(req[p].in.body, f, req[p].pre.maids))
         => /\ users = req[p].pre.users
            /\ IF req[p].in.id \in DOMAIN req[p].pre.users
                 THEN IsReferenceError(req[p], {"maid_id", "instax_maid_id"})
                 ELSE req[p].status = 404 /\ req[p].message = "User not found."

(* an update of a registered user whose instax_maid_id alone names no maid *)
C2_Witness ==
  \E p \in Procs :
    /\ Ended(p, "UserUpdate")
    /\ req[p].in.id \in DOMAIN users
    /\ users[req[p].in.id].maidId # Null
    /\ req[p].in.body.has = {"maid_id", "instax_maid_id"}
    /\ ~OffendingMaid(req[p].in.body, "maid_id", req[p].pre.maids)
    /\ req[p].message = ReferenceError("instax_maid_id")

-----------------------------------------------------------------------------
(* C4: a Maid delete on an existing maid removes the maid row and no user    *)
(* row; every user is as before except that a maid_id or instax_maid_id      *)
(* equal to the deleted id is now null.                                      *)
C4_MaidDeleteNullsReferences ==
  \A p \in Procs :
    (Ended(p, "MaidDelete") /\ req[p].in.id \in DOMAIN req[p].pre.maids)
    => LET id == req[p].in.id
           before == req[p].pre.users
       IN /\ req[p].status = 200
          /\ id \notin DOMAIN maids
          /\ DOMAIN users = DOMAIN before
          /\ \A u \in DOMAIN before :
               /\ users[u].maidId = (IF before[u].maidId = id THEN Null ELSE before[u].maidId)
               /\ users[u].instaxMaidId =
                    (IF before[u].instaxMaidId = id THEN Null ELSE before[u].instaxMaidId)
               /\ users[u].seatId = before[u].seatId
               /\ users[u].name = before[u].name
               /\ users[u].status = before[u].status
               /\ users[u].isValid = before[u].isValid
               /\ users[u].updatedAt = before[u].updatedAt

(* the deleted maid was both the maid and the instax maid of a named user *)
C4_Witness ==
  \E p \in Procs :
    /\ Ended(p, "MaidDelete")
    /\ req[p].status = 200
    /\ \E u \in DOMAIN req[p].pre.users :
         /\ req[p].pre.users[u].maidId = req[p].in.id
         /\ req[p].pre.users[u].instaxMaidId = req[p].in.id
         /\ req[p].pre.users[u].name = <<"A">>
         /\ u \in DOMAIN users /\ users[u].maidId = Null /\ users[u].instaxMaidId = Null

-----------------------------------------------------------------------------
(* Two requests in flight at once: User create, User update and Maid delete  *)
(* interleave at every awaited call.                                         *)

InitConcurrentRefs ==
  /\ EmptyDb
  /\ conc = 2

NextConcurrentRefs ==
  \/ \E p \in Procs, id \in MaidIds : MaidCreateStart(p, id, EmptyBody)
  \/ \E p \in Procs : MaidCreateInsert(p)
  \/ \E p \in Procs, id \in MaidIds : MaidDeleteStart(p, id)
  \/ \E p \in Procs : MaidDeleteRow(p)
  \/ \E p \in Procs : MaidDeleteBlob(p)
  \/ \E p \in Procs, id \in {"u1"}, body \in UserCreateBodies({1}, {}) :
       UserCreateStart(p, id, body)
  \/ \E p \in Procs : UserCreateFind(p)
  \/ \E p \in Procs : UserCreateUpdate(p)
  \/ \E p \in Procs : UserCreateInsert(p)
  \/ \E p \in Procs, id \in {"u1"}, body \in MaidRefBodies : UserUpdateStart(p, id, body)
  \/ \E p \in Procs : UserUpdateValidateMaid(p)
  \/ \E p \in Procs : UserUpdateValidateInstaxMaid(p)
  \/ \E p \in Procs : UserUpdateWrite(p)
  \/ \E p \in Procs : Finish(p)

SpecConcurrentRefs == InitConcurrentRefs /\ [][NextConcurrentRefs]_vars

(* C3: in every reachable state, under any interleaving of User create, User *)
(* update and Maid delete, every user's non-null maid_id and non-null        *)
(* instax_maid_id is the id of a maid that exists.                           *)
C3_UserMaidRefsExist ==
  \A u \in DOMAIN users :
    /\ users[u].maidId # Null => users[u].maidId \in DOMAIN maids
    /\ users[u].instaxMaidId # Null => users[u].instaxMaidId \in DOMAIN maids

(* a write of a reference was refused because the maid, present when the     *)
(* handler validated it, had been deleted by the time of the write           *)
C3_Witness ==
  \E p \in Procs :
    /\ req[p].pc = "done"
    /\ req[p].op \in {"UserCreate", "UserUpdate"}
    /\ req[p].status = 500
    /\ "maid_id" \in DOMAIN req[p].in.body
    /\ req[p].in.body.maid_id \notin DOMAIN maids
    /\ \E q \in Procs :
         /\ req[q].op = "MaidDelete" /\ req[q].pc = "blob"
         /\ req[q].in.id = req[p].in.body.maid_id

-----------------------------------------------------------------------------
(* Rows that earlier requests leave behind: a maid as POST /api/maids/:id    *)
(* inserts it, a visitor as POST /api/users/:id inserts it at seat 1, a menu *)
(* as POST /api/menus leaves it once its image (object key 1) is recorded.   *)

SeedMaid == MaidInsertRow(EmptyBody)

SeedUser == RegisterRow([has |-> {}, seat_id |-> 1, maid_id |-> "m1"], 0)

SeedMenu ==
  [name |-> <<"O">>, description |-> NullText, stock |-> 1, imageUrl |-> 1,
   updatedAt |-> SqlTimestamp(0)]

-----------------------------------------------------------------------------
(* The order counter, one request at a time: a visitor and a menu exist;     *)
(* orders are placed and their state is changed while time passes.           *)

InitOrders ==
  /\ maids = ("m1" :> SeedMaid)
  /\ users = ("u1" :> SeedUser)
  /\ menus = (1 :> SeedMenu)
  /\ orders = << >>
  /\ instaxes = << >>
  /\ histories = << >>
  /\ blobs = {1}
  /\ seq = [key |-> 1, menu |-> 1, order |-> 0, instax |-> 0, history |-> 0]
  /\ now = 0
  /\ req = [p \in Procs |-> Idle]
  /\ conc = 1

NextOrders ==
  \/ \E p \in Procs, u \in UserIds, m \in 1..MaxMenus : OrderCreate(p, u, m)
  \/ \E p \in Procs, id \in 1..MaxOrders, st \in OrderStates : OrderUpdateStart(p, id, st)
  \/ \E p \in Procs : OrderUpdateWrite(p)
  \/ \E p \in Procs : Finish(p)
  \/ Tick

SpecOrders == InitOrders /\ [][NextOrders]_vars

(* C5: an Order update to the state the order already has answers success    *)
(* with "No changes applied.", returns the stored row and leaves the order   *)
(* table, updated_at included, as it was (so any number of repeats give the  *)
(* same response and row); an update to a different state stores that state  *)
(* and sets updated_at to the time of the call.                              *)
C5_OrderUpdateNoOp ==
  \A p \in Procs :
    (Ended(p, "OrderUpdate") /\ req[p].in.id \in DOMAIN req[p].pre.orders)
    => LET id == req[p].in.id
           before == req[p].pre.orders[id]
       IN /\ req[p].status = 200
          /\ IF before.state = req[p].in.state
               THEN /\ req[p].message = "No changes applied."
                    /\ req[p].data = before
                    /\ orders = req[p].pre.orders
               ELSE /\ req[p].message = "Order updated successfully."
                    /\ orders[id].state = req[p].in.state
                    /\ orders[id].updatedAt.sep = " "
                    /\ InstantOf(orders[id].updatedAt) >= req[p].at
                    /\ InstantOf(orders[id].updatedAt) <= now
                    /\ \A o \in DOMAIN orders \ {id} : orders[o] = req[p].pre.orders[o]

(* a repeat of "preparing" on an order moved to preparing at an earlier time *)
C5_Witness ==
  \E p \in Procs :
    /\ Ended(p, "OrderUpdate")
    /\ req[p].in.id \in DOMAIN req[p].pre.orders
    /\ req[p].in.state = "preparing"
    /\ req[p].message = "No changes applied."
    /\ InstantOf(orders[req[p].in.id].updatedAt) > 0
    /\ InstantOf(orders[req[p].in.id].updatedAt) < req[p].at

-----------------------------------------------------------------------------
(* The staff desk, one request at a time: maids are created, updated (JSON   *)
(* and multipart, with and without an image) and deleted.                    *)

MaidUpdateBodies ==
  {[ct |-> "json", has |-> {}],
   [ct |-> "json", has |-> {"name"}, name |-> <<"A">>],
   [ct |-> "json", has |-> {"name"}, name |-> <<>>],
   [ct |-> "json", has |-> {"name"}, name |-> <<" ">>],
   [ct |-> "json", has |-> {"is_instax_available"}, is_instax_available |-> "true"],
   [ct |-> "multipart", has |-> {}],
   [ct |-> "multipart", has |-> {"name"}, name |-> <<" ">>],
   [ct |-> "multipart", has |-> {"name"}, name |-> <<"B", " ">>],
   [ct |-> "multipart", has |-> {"image"}],
   [ct |-> "multipart", has |-> {"is_instax_available"}, is_instax_available |-> "on"],
   [ct |-> "multipart", has |-> {"is_instax_available"}, is_instax_available |-> "maybe"]}

InitMaids ==
  /\ EmptyDb
  /\ conc = 1

NextMaids ==
  \/ \E p \in Procs, id \in MaidIds : MaidCreateStart(p, id, EmptyBody)
  \/ \E p \in Procs : MaidCreateInsert(p)
  \/ \E p \in Procs, id \in MaidIds, body \in MaidUpdateBodies : MaidUpdateStart(p, id, body)
  \/ \E p \in Procs : MaidUpdateUpload(p)
  \/ \E p \in Procs : MaidUpdateDeleteOld(p)
  \/ \E p \in Procs : MaidUpdateWrite(p)
  \/ \E p \in Procs, id \in MaidIds : MaidDeleteStart(p, id)
  \/ \E p \in Procs : MaidDeleteRow(p)
  \/ \E p \in Procs : MaidDeleteBlob(p)
  \/ \E p \in Procs : Finish(p)

SpecMaids == InitMaids /\ [][NextMaids]_vars

(* the request carries no field at all *)
NoFieldSupplied(body) == body.has = {}

(* C6 as stated: a Maid update on an existing maid that supplies no field is *)
(* answered with a success saying no changes were applied, and the maid      *)
(* table and the blob store are as before.                                   *)
C6_Original ==
  \A p \in Procs :
    (/\ Ended(p, "MaidUpdate")
     /\ req[p].in.id \in DOMAIN req[p].pre.maids
     /\ NoFieldSupplied(req[p].in.body))
    => /\ req[p].status = 200
       /\ req[p].message = "No changes applied."
       /\ maids = req[p].pre.maids
       /\ blobs = req[p].pre.blobs

(* C6 amended: a Maid update that supplies no field is answered with a 400   *)
(* validation error ("Invalid request body." for JSON, "No updatable fields  *)
(* provided." for multipart); the success "No changes applied." is given     *)
(* only to a JSON body whose only field is a name that is blank once         *)
(* trimmed.  In both cases the maid table and the blob store are as before.  *)
C6_NoFieldIsRejected ==
  \A p \in Procs :
    Ended(p, "MaidUpdate") =>
      /\ NoFieldSupplied(req[p].in.body) =>
           /\ req[p].status = 400
           /\ req[p].message = (IF req[p].in.body.ct = "json"
                                  THEN "Invalid request body."
                                  ELSE "No updatable fields provided.")
           /\ maids = req[p].pre.maids
           /\ blobs = req[p].pre.blobs
      /\ req[p].message = "No changes applied." =>
           /\ req[p].status = 200
           /\ req[p].in.body.ct = "json"
           /\ req[p].in.body.has = {"name"}
           /\ Len(req[p].in.body.name) >= 1 /\ Trim(req[p].in.body.name) = <<>>
           /\ req[p].data = req[p].pre.maids[req[p].in.id]
           /\ maids = req[p].pre.maids
           /\ blobs = req[p].pre.blobs

(* a multipart update with no field, sent for a maid that has a name, the    *)
(* flag set and an image in the store                                        *)
C6_Witness ==
  \E p \in Procs :
    /\ Ended(p, "MaidUpdate")
    /\ req[p].in.body = [ct |-> "multipart", has |-> {}]
    /\ req[p].in.id \in DOMAIN maids
    /\ maids[req[p].in.id].imageUrl \in blobs
    /\ maids[req[p].in.id].name # <<>>
    /\ maids[req[p].in.id].isInstaxAvailable
    /\ req[p].status = 400

-----------------------------------------------------------------------------
(* The kitchen, one request at a time: menus are created (any of the insert, *)
(* the upload and the follow-up update may fail) and deleted.                *)

(* stock form fields: the numbers up to MaxStock, and texts that are not a   *)
(* non-negative integer                                                      *)
StockTexts == {DigitText(k) : k \in 0..MaxStock}

BadStockTexts == {<<"-", "1">>, <<"1", ".", "5">>, <<"x">>, <<" ">>}

MenuCreateBodies ==
  {[has |-> {"name", "stock", "image"}, name |-> <<"O">>, stock |-> t] :
     t \in StockTexts \cup BadStockTexts}
  \cup {[has |-> {"name", "stock", "image", "description"}, name |-> <<"O", " ">>,
         stock |-> <<"1">>, description |-> d] : d \in {<<" ">>, <<"d">>}}
  \cup {[has |-> {"name", "stock"}, name |-> <<"O">>, stock |-> <<"1">>],
        [has |-> {"stock", "image"}, stock |-> <<"1">>]}

InitMenus ==
  /\ EmptyDb
  /\ conc = 1

NextMenus ==
  \/ \E p \in Procs, body \in MenuCreateBodies : MenuCreateStart(p, body)
  \/ \E p \in Procs, body \in MenuCreateBodies : MenuCreateInsertFail(p, body)
  \/ \E p \in Procs : MenuCreateUpload(p)
  \/ \E p \in Procs : MenuCreateUploadFail(p)
  \/ \E p \in Procs : MenuCreateUpdate(p)
  \/ \E p \in Procs : MenuCreateUpdateFail(p)
  \/ \E p \in Procs : MenuCreateRollbackRow(p)
  \/ \E p \in Procs : MenuCreateRollbackBlob(p)
  \/ \E p \in Procs, id \in 1..MaxMenus : MenuDeleteStart(p, id)
  \/ \E p \in Procs : MenuDeleteRow(p)
  \/ \E p \in Procs : MenuDeleteBlob(p)
  \/ \E p \in Procs : Finish(p)
  \/ Tick

SpecMenus == InitMenus /\ [][NextMenus]_vars

-----------------------------------------------------------------------------
(* The photo corner, one request at a time: with one maid on duty and one    *)
(* visitor seated, instax records are created, their image is replaced, and  *)
(* the maid may be deleted.                                                  *)

InitInstax ==
  /\ EmptyDb
  /\ conc = 1

NextInstax ==
  \/ \E p \in Procs : MaidCreateStart(p, "m1", EmptyBody)
  \/ \E p \in Procs : MaidCreateInsert(p)
  \/ \E p \in Procs : MaidDeleteStart(p, "m1")
  \/ \E p \in Procs : MaidDeleteRow(p)
  \/ \E p \in Procs : MaidDeleteBlob(p)
  \/ \E p \in Procs : UserCreateStart(p, "u1", [has |-> {}, seat_id |-> 1, maid_id |-> "m1"])
  \/ \E p \in Procs : UserCreateFind(p)
  \/ \E p \in Procs : UserCreateUpdate(p)
  \/ \E p \in Procs : UserCreateInsert(p)
  \/ \E p \in Procs, u \in UserIds, m \in MaidIds : InstaxCreate(p, u, m)
  \/ \E p \in Procs : createInstaxRecordUpload(p)
  \/ \E p \in Procs : createInstaxRecordInsert(p)
  \/ \E p \in Procs, id \in 1..MaxInstax : InstaxUpdateStart(p, id)
  \/ \E p \in Procs : InstaxUpdateUpload(p)
  \/ \E p \in Procs : InstaxUpdateArchive(p)
  \/ \E p \in Procs : InstaxUpdateWrite(p)
  \/ \E p \in Procs : Finish(p)
  \/ Tick

SpecInstax == InitInstax /\ [][NextInstax]_vars

(* history rows inserted since the request arrived *)
NewHistories(r) == {h \in DOMAIN histories : h \notin DOMAIN r.pre.histories}

(* C8: an Instax update of a record whose image key is K (not null): once    *)
(* the archive step is over and until the answer, exactly one history row    *)
(* has been added, it carries the record's id and K; while the overwrite is  *)
(* still to come the record still holds K (the row was there first); after   *)
(* the success answer the record holds the key of the new upload, a key the  *)
(* store did not know before, and object K is still in the store.            *)
C8_InstaxUpdateArchivesOldKey ==
  \A p \in Procs :
    (/\ req[p].op = "InstaxUpdate"
     /\ req[p].pc \in {"update", "done"}
     /\ "existing" \in DOMAIN req[p]
     /\ req[p].existing.imageUrl # NullKey) =>
      LET r == req[p]
          id == r.in.id
          K == r.pre.instaxes[id].imageUrl
      IN /\ K = r.existing.imageUrl
         /\ Cardinality(NewHistories(r)) = 1
         /\ \A h \in NewHistories(r) :
              histories[h].instaxId = id /\ histories[h].imageUrl = K
         /\ r.pc = "update" => instaxes[id].imageUrl = K
         /\ r.pc = "done" =>
              /\ r.status = 200
              /\ instaxes[id].imageUrl = r.key
              /\ r.key # K
              /\ r.key \notin r.pre.blobs
              /\ r.key \in blobs
              /\ K \in blobs
              /\ DOMAIN instaxes = DOMAIN r.pre.instaxes
              /\ \A i \in DOMAIN instaxes \ {id} : instaxes[i] = r.pre.instaxes[i]

(* a second replacement of the same record's image has succeeded: the store  *)
(* holds the first image, the second and the third                           *)
C8_Witness ==
  \E p \in Procs :
    /\ Ended(p, "InstaxUpdate")
    /\ req[p].status = 200
    /\ req[p].existing.imageUrl # NullKey
    /\ req[p].pre.histories # << >>
    /\ Cardinality(DOMAIN histories) = 2
    /\ instaxes[req[p].in.id].imageUrl = req[p].key

-----------------------------------------------------------------------------
(* The seating plan, one request at a time: with one maid on duty, two       *)
(* visitor ids are registered, re-registered, moved and invalidated while    *)
(* time passes, and the occupant of a seat is looked up.                     *)

InitSeats ==
  /\ maids = ("m1" :> SeedMaid)
  /\ users = << >>
  /\ menus = << >>
  /\ orders = << >>
  /\ instaxes = << >>
  /\ histories = << >>
  /\ blobs = {}
  /\ seq = [key |-> 0, menu |-> 0, order |-> 0, instax |-> 0, history |-> 0]
  /\ now = 0
  /\ req = [p \in Procs |-> Idle]
  /\ conc = 1

NextSeats ==
  \/ \E p \in Procs, id \in UserIds :
       UserCreateStart(p, id, [has |-> {}, seat_id |-> 1, maid_id |-> "m1"])
  \/ \E p \in Procs : UserCreateFind(p)
  \/ \E p \in Procs : UserCreateUpdate(p)
  \/ \E p \in Procs : UserCreateInsert(p)
  \/ \E p \in Procs, id \in UserIds, body \in ValidBodies \cup SeatBodies({1}) :
       UserUpdateStart(p, id, body)
  \/ \E p \in Procs : UserUpdateValidateMaid(p)
  \/ \E p \in Procs : UserUpdateValidateInstaxMaid(p)
  \/ \E p \in Procs : UserUpdateWrite(p)
  \/ \E p \in Procs, seatId \in Seats : GetUserBySeat(p, seatId)
  \/ \E p \in Procs : Finish(p)
  \/ Tick

SpecSeats == InitSeats /\ [][NextSeats]_vars

(* the valid users of a seat whose last write is not earlier in time than    *)
(* the last write of any other valid user of the seat                        *)
LatestInTime(seatId) ==
  {u \in SeatCandidates(seatId) :
     \A v \in SeatCandidates(seatId) :
       InstantOf(users[v].updatedAt) <= InstantOf(users[u].updatedAt)}

(* C9: get-by-seat(N) answers not-found exactly when no valid user has seat  *)
(* N, and otherwise returns a valid user of seat N whose last write (insert, *)
(* re-register or update) is the latest in time.                             *)
C9_GetBySeatReturnsLatestInTime ==
  \A p \in Procs :
    Ended(p, "GetUserBySeat") =>
      /\ req[p].status = 404 <=> SeatCandidates(req[p].in.seatId) = {}
      /\ req[p].status = 200 => req[p].data \in LatestInTime(req[p].in.seatId)

-----------------------------------------------------------------------------
(* The photo corner by seat, one request at a time: two visitor ids are      *)
(* registered and re-registered at seat 1 and invalidated while time passes, *)
(* and an instax is created for the occupant of a seat.                      *)

NextSeatInstax ==
  \/ \E p \in Procs, id \in UserIds :
       UserCreateStart(p, id, [has |-> {}, seat_id |-> 1, maid_id |-> "m1"])
  \/ \E p \in Procs : UserCreateFind(p)
  \/ \E p \in Procs : UserCreateUpdate(p)
  \/ \E p \in Procs : UserCreateInsert(p)
  \/ \E p \in Procs, id \in UserIds :
       UserUpdateStart(p, id, [has |-> {"is_valid"}, is_valid |-> FALSE])
  \/ \E p \in Procs : UserUpdateValidateMaid(p)
  \/ \E p \in Procs : UserUpdateValidateInstaxMaid(p)
  \/ \E p \in Procs : UserUpdateWrite(p)
  \/ \E p \in Procs, seatId \in Seats : InstaxCreateBySeat(p, seatId, "m1")
  \/ \E p \in Procs : createInstaxRecordUpload(p)
  \/ \E p \in Procs : createInstaxRecordInsert(p)
  \/ \E p \in Procs : Finish(p)
  \/ Tick

SpecSeatInstax == InitSeats /\ [][NextSeatInstax]_vars

(* C10: create-by-seat answers not-found exactly when the seat has no valid  *)
(* occupant, and then has stored neither an object nor an instax row; when   *)
(* it succeeds the new instax row belongs to the valid user of the seat      *)
(* whose last write is the latest in time.                                   *)
C10_CreateBySeatUsesOccupant ==
  \A p \in Procs :
    Ended(p, "InstaxCreateBySeat") =>
      /\ req[p].status = 404 <=> SeatCandidates(req[p].in.seatId) = {}
      /\ req[p].status = 404 =>
           blobs = req[p].pre.blobs /\ instaxes = req[p].pre.instaxes
      /\ req[p].status = 201 =>
           instaxes[req[p].instaxId].userId \in LatestInTime(req[p].in.seatId)

-----------------------------------------------------------------------------
(* The floor, one request at a time: with two maids on duty, two visitor ids *)
(* are registered with a status, change status, move to the other maid and   *)
(* are invalidated, and a maid's assigned visitors are listed.               *)

StatusTexts ==
  {NullText, <<" ">>, <<"x">>, Leaving, <<" ">> \o Leaving \o <<" ">>,
   <<"L", "E", "A", "V", "I", "N", "G">>, <<"L">> \o Tail(Leaving), Leaving \o <<"x">>}

InitFloor ==
  /\ maids = ("m1" :> SeedMaid)
  /\ users = << >>
  /\ menus = << >>
  /\ orders = << >>
  /\ instaxes = << >>
  /\ histories = << >>
  /\ blobs = {}
  /\ seq = [key |-> 0, menu |-> 0, order |-> 0, instax |-> 0, history |-> 0]
  /\ now = 0
  /\ req = [p \in Procs |-> Idle]
  /\ conc = 1

NextFloor ==
  \/ \E p \in Procs, id \in UserIds :
       UserCreateStart(p, id, [has |-> {}, seat_id |-> 1, maid_id |-> "m1"])
  \/ \E p \in Procs : UserCreateFind(p)
  \/ \E p \in Procs : UserCreateUpdate(p)
  \/ \E p \in Procs : UserCreateInsert(p)
  \/ \E p \in Procs, id \in UserIds,
        body \in {[has |-> {"status"}, status |-> x] : x \in StatusTexts}
                 \cup ValidBodies \cup {[has |-> {"maid_id"}, maid_id |-> Null]} :
       UserUpdateStart(p, id, body)
  \/ \E p \in Procs : UserUpdateValidateMaid(p)
  \/ \E p \in Procs : UserUpdateValidateInstaxMaid(p)
  \/ \E p \in Procs : UserUpdateWrite(p)
  \/ \E p \in Procs, id \in MaidIds, query \in EngagementFilters \cup {"", "busy"} :
       ListAssignedStart(p, id, query)
  \/ \E p \in Procs : ListAssignedQuery(p)
  \/ \E p \in Procs : ListAssignedRespond(p)
  \/ \E p \in Procs : Finish(p)

SpecFloor == InitFloor /\ [][NextFloor]_vars

(* the users a list-assigned-users call with filter f is to return: valid,   *)
(* assigned to the maid, and leaving exactly when the stored status reads    *)
(* "leaving" once trimmed and lower-cased                                    *)
ExpectedAssigned(maidId, f) ==
  {u \in DOMAIN users :
     /\ users[u].isValid
     /\ users[u].maidId = maidId
     /\ \/ f = "both"
        \/ f = "leaving" /\ users[u].status # NullText
                         /\ ToLowerCase(Trim(users[u].status)) = Leaving
        \/ f = "serving" /\ (users[u].status = NullText
                             \/ ToLowerCase(Trim(users[u].status)) # Leaving)}

(* C11: list-assigned-users(id, f) on an existing maid returns exactly the   *)
(* valid users assigned to id whose engagement state matches f (all of them  *)
(* for both), each labelled leaving iff its status trimmed and lower-cased   *)
(* is "leaving"; the serving and the leaving results are disjoint and their  *)
(* union is the both result.                                                 *)
C11_ListAssignedUsers ==
  \A p \in Procs :
    (Ended(p, "ListAssigned") /\ req[p].status = 200) =>
      LET id == req[p].in.id
          f == StatusInput(req[p].in.query)
      IN /\ id \in DOMAIN maids
         /\ {x.id : x \in req[p].data} = ExpectedAssigned(id, f)
         /\ \A x \in req[p].data :
              x.engagement_state = "leaving" <=> x.id \in ExpectedAssigned(id, "leaving")
         /\ ExpectedAssigned(id, "serving") \cap ExpectedAssigned(id, "leaving") = {}
         /\ ExpectedAssigned(id, "serving") \cup ExpectedAssigned(id, "leaving")
              = ExpectedAssigned(id, "both")

(* the leaving filter returned a visitor whose status is written in capitals *)
(* while another valid visitor of the same maid is serving                   *)
C11_Witness ==
  \E p \in Procs :
    /\ Ended(p, "ListAssigned")
    /\ req[p].status = 200
    /\ req[p].in.query = "leaving"
    /\ \E x \in req[p].data : users[x.id].status = <<"L", "E", "A", "V", "I", "N", "G">>
    /\ ExpectedAssigned(req[p].in.id, "serving") # {}

-----------------------------------------------------------------------------
(* The roster, one request at a time: maids are created, switched active and *)
(* inactive, updated and deleted, and the roster is listed.                  *)

RosterUpdateBodies ==
  {[ct |-> "json", has |-> {"name"}, name |-> <<"A">>],
   [ct |-> "json", has |-> {"is_instax_available"}, is_instax_available |-> "true"],
   [ct |-> "multipart", has |-> {"image"}]}

InitRoster ==
  /\ EmptyDb
  /\ conc = 1

NextRoster ==
  \/ \E p \in Procs, id \in MaidIds : MaidCreateStart(p, id, EmptyBody)
  \/ \E p \in Procs : MaidCreateInsert(p)
  \/ \E p \in Procs, id \in MaidIds, b \in BOOLEAN : MaidToggleStart(p, id, b)
  \/ \E p \in Procs : MaidToggleWrite(p)
  \/ \E p \in Procs, id \in MaidIds, body \in RosterUpdateBodies : MaidUpdateStart(p, id, body)
  \/ \E p \in Procs : MaidUpdateUpload(p)
  \/ \E p \in Procs : MaidUpdateDeleteOld(p)
  \/ \E p \in Procs : MaidUpdateWrite(p)
  \/ \E p \in Procs, id \in MaidIds : MaidDeleteStart(p, id)
  \/ \E p \in Procs : MaidDeleteRow(p)
  \/ \E p \in Procs : MaidDeleteBlob(p)
  \/ \E p \in Procs, query \in {"absent", "true", "yes", "false", "0", "on"},
        page \in {0, 1, 2}, per \in {1, 20} :
       MaidList(p, query, page, per)
  \/ \E p \in Procs : Finish(p)

SpecRoster == InitRoster /\ [][NextRoster]_vars

(* C12: a list with is_active=true returns only maids stored active, a list  *)
(* with is_active=false only maids stored inactive (all of them when the     *)
(* page holds them all); a maid that appears is inactive; no request but a   *)
(* toggle-active changes a stored is_active, and a successful toggle-active  *)
(* stores the value it was given.                                            *)
C12_ListIsActive ==
  \A p \in Procs :
    /\ (Ended(p, "MaidList") /\ req[p].status = 200 /\ req[p].in.query # "absent") =>
         LET want == req[p].in.query \in ActiveTrueWords
         IN /\ \A x \in req[p].data :
                 x.id \in DOMAIN maids /\ maids[x.id].isActive = want /\ x.is_active = want
            /\ (req[p].in.page = 1 /\ req[p].in.per >= Cardinality(DOMAIN maids)) =>
                 {x.id : x \in req[p].data} = {m \in DOMAIN maids : maids[m].isActive = want}
    /\ (req[p].pc = "done" /\ req[p].op # "MaidToggle") =>
         \A m \in DOMAIN maids :
           IF m \in DOMAIN req[p].pre.maids
             THEN maids[m].isActive = req[p].pre.maids[m].isActive
             ELSE ~maids[m].isActive
    /\ (Ended(p, "MaidToggle") /\ req[p].status = 200) =>
         /\ maids[req[p].in.id].isActive = req[p].in.is_active
         /\ \A m \in DOMAIN maids \ {req[p].in.id} :
              maids[m].isActive = req[p].pre.maids[m].isActive

(* two maids, one switched active and since then updated, one left inactive: *)
(* the list of active maids has returned the first one only                  *)
C12_Witness ==
  \E p \in Procs :
    /\ Ended(p, "MaidList")
    /\ req[p].status = 200
    /\ req[p].in.query = "true"
    /\ DOMAIN maids = MaidIds
    /\ {x.id : x \in req[p].data} = {"m1"}
    /\ maids["m1"].name = <<"A">>
    /\ ~maids["m2"].isActive

-----------------------------------------------------------------------------
(* The back office, one request at a time: two menus with their images are   *)
(* stored; menu deletions arrive with and without the right x-api-key, at a  *)
(* server with and without a configured secret.                              *)

InitOffice ==
  /\ maids = << >>
  /\ users = << >>
  /\ menus = (1 :> SeedMenu) @@ (2 :> [SeedMenu EXCEPT !.imageUrl = 2])
  /\ orders = << >>
  /\ instaxes = << >>
  /\ histories = << >>
  /\ blobs = {1, 2}
  /\ seq = [key |-> 2, menu |-> 2, order |-> 0, instax |-> 0, history |-> 0]
  /\ now = 0
  /\ req = [p \in Procs |-> Idle]
  /\ conc = 1

Secrets == {NoSecret, "k1"}

Headers == {Null, NoSecret, "k1", "k2"}

NextOffice ==
  \/ \E p \in Procs, id \in 1..(MaxMenus + 1), secret \in Secrets, header \in Headers :
       AdminMenuDelete(p, id, secret, header)
  \/ \E p \in Procs : MenuDeleteRow(p)
  \/ \E p \in Procs : MenuDeleteBlob(p)
  \/ \E p \in Procs : Finish(p)
  \/ Tick

SpecOffice == InitOffice /\ [][NextOffice]_vars

(* the answers the middleware gives *)
AuthAnswers == {401, 500}

(* C13: a menu deletion whose x-api-key header is absent or differs from the *)
(* configured secret is answered 401 and leaves every table and the store as *)
(* they were; with no secret configured the answer is 500 whatever the       *)
(* header, again with nothing changed; a request is past the middleware (in  *)
(* the handler, or answered by it) only if the secret is configured and the  *)
(* header equals it.                                                         *)
C13_AuthGate ==
  \A p \in Procs :
    req[p].op = "MenuDelete" =>
      LET r == req[p]
          configured == r.in.secret # NoSecret
          matches == r.in.header = r.in.secret
      IN /\ (~configured /\ r.pc = "done") => (r.status = 500 /\ Db = r.pre)
         /\ (configured /\ ~matches /\ r.pc = "done") => (r.status = 401 /\ Db = r.pre)
         /\ (r.pc # "done" \/ r.status \notin AuthAnswers) => (configured /\ matches)
         /\ (configured /\ matches /\ r.pc = "done") => r.status \in {200, 404}

(* a deletion with a wrong key was turned away from a menu that exists, and  *)
(* the menu and its image are still there                                    *)
C13_Witness ==
  \E p \in Procs :
    /\ Ended(p, "MenuDelete")
    /\ req[p].status = 401
    /\ req[p].in.header = "k2"
    /\ req[p].in.id \in DOMAIN menus
    /\ menus[req[p].in.id].imageUrl \in blobs
    /\ Cardinality(DOMAIN menus) = 1

-----------------------------------------------------------------------------
(* Hiring, two requests in flight: maids are created, with and without a     *)
(* name, and deleted.                                                        *)

MaidCreateBodies == {EmptyBody, [has |-> {"name"}, name |-> <<"A", " ">>]}

InitHiring ==
  /\ EmptyDb
  /\ conc = 2

NextHiring ==
  \/ \E p \in Procs, id \in MaidIds, body \in MaidCreateBodies : MaidCreateStart(p, id, body)
  \/ \E p \in Procs : MaidCreateInsert(p)
  \/ \E p \in Procs, id \in MaidIds : MaidDeleteStart(p, id)
  \/ \E p \in Procs : MaidDeleteRow(p)
  \/ \E p \in Procs : MaidDeleteBlob(p)
  \/ \E p \in Procs : Finish(p)

SpecHiring == InitHiring /\ [][NextHiring]_vars

(* C14: every Maid create ends either with 201, having inserted the row, or  *)
(* with the 409 conflict error, also when two creates of the same id are in  *)
(* flight together.                                                          *)
C14_CreateOrConflict ==
  \A p \in Procs :
    Ended(p, "MaidCreate") =>
      \/ req[p].status = 201 /\ req[p].data = MaidInsertRow(req[p].in.body)
      \/ req[p].status = 409 /\ req[p].message = "Maid id already exists."

-----------------------------------------------------------------------------
(* The menu card, one request at a time: one menu with its image and a       *)
(* description is stored; it is updated by JSON bodies and multipart forms   *)
(* while time passes.                                                        *)

MenuUpdateBodies ==
  {[ct |-> "json", has |-> {}],
   [ct |-> "json", has |-> {"name"}, name |-> <<"P">>],
   [ct |-> "json", has |-> {"name"}, name |-> <<" ">>],
   [ct |-> "json", has |-> {"description"}, description |-> <<" ">>],
   [ct |-> "json", has |-> {"name", "stock"}, name |-> <<"Q">>, stock10 |-> 0]}
  \cup {[ct |-> "json", has |-> {"stock"}, stock10 |-> k] :
          k \in {0 - Tenths, 0, 5, MaxStock * Tenths}}
  \cup {[ct |-> "multipart", has |-> {"stock"}, stock |-> t] :
          t \in StockTexts \cup BadStockTexts}
  \cup {[ct |-> "multipart", has |-> {}],
        [ct |-> "multipart", has |-> {"image"}],
        [ct |-> "multipart", has |-> {"description"}, description |-> <<"e">>]}

InitCard ==
  /\ maids = ("m1" :> SeedMaid)
  /\ users = ("u1" :> SeedUser)
  /\ menus = (1 :> [SeedMenu EXCEPT !.description = <<"d">>])
  /\ orders = << >>
  /\ instaxes = << >>
  /\ histories = << >>
  /\ blobs = {1}
  /\ seq = [key |-> 1, menu |-> 1, order |-> 0, instax |-> 0, history |-> 0]
  /\ now = 0
  /\ req = [p \in Procs |-> Idle]
  /\ conc = 1

NextCard ==
  \/ \E p \in Procs, id \in 1..MaxMenus, body \in MenuUpdateBodies : MenuUpdateStart(p, id, body)
  \/ \E p \in Procs : MenuUpdateUpload(p)
  \/ \E p \in Procs : MenuUpdateDeleteOld(p)
  \/ \E p \in Procs : MenuUpdateWrite(p)
  \/ \E p \in Procs : Finish(p)
  \/ Tick

SpecCard == InitCard /\ [][NextCard]_vars

(* C15: a successful Menu update leaves every field of the menu that the     *)
(* request does not carry as it was (updated_at aside), leaves every other   *)
(* menu alone, and touches the blob store only when it carries an image; a   *)
(* JSON update that carries only stock stores the given stock and leaves     *)
(* name, description, image key and the blob store as they were.             *)
C15_StockOnlyUpdate ==
  \A p \in Procs :
    (Ended(p, "MenuUpdate") /\ req[p].status = 200) =>
      LET id == req[p].in.id
          body == req[p].in.body
          old == req[p].pre.menus[id]
      IN /\ DOMAIN menus = DOMAIN req[p].pre.menus
         /\ \A m \in DOMAIN menus \ {id} : menus[m] = req[p].pre.menus[m]
         /\ "name" \notin body.has => menus[id].name = old.name
         /\ "stock" \notin body.has => menus[id].stock = old.stock
         /\ "description" \notin body.has => menus[id].description = old.description
         /\ "image" \notin body.has => (menus[id].imageUrl = old.imageUrl
                                         /\ blobs = req[p].pre.blobs)
         /\ (body.ct = "json" /\ body.has = {"stock"}) =>
              /\ menus[id].stock * Tenths = body.stock10
              /\ menus[id].name = old.name
              /\ menus[id].description = old.description
              /\ menus[id].imageUrl = old.imageUrl
              /\ blobs = req[p].pre.blobs
              /\ req[p].data = menus[id]

(* a stock-only JSON update has changed the stock of a menu whose image had  *)
(* been replaced before, at a later time than the menu's last write          *)
C15_Witness ==
  \E p \in Procs :
    /\ Ended(p, "MenuUpdate")
    /\ req[p].in.body.ct = "json"
    /\ req[p].in.body.has = {"stock"}
    /\ req[p].status = 200
    /\ menus[req[p].in.id].stock # req[p].pre.menus[req[p].in.id].stock
    /\ menus[req[p].in.id].imageUrl # 1
    /\ menus[req[p].in.id].updatedAt # req[p].pre.menus[req[p].in.id].updatedAt

-----------------------------------------------------------------------------
(* the place of a state in the sequence pending, preparing, served *)
StateRank(state) ==
  CASE state = "pending" -> 1 [] state = "preparing" -> 2 [] state = "served" -> 3

(* C16: no Order update moves an order's state backwards in the sequence     *)
(* pending, preparing, served: after an answered update the stored state is  *)
(* not earlier than the state the order had before the call.                 *)
C16_OrderStateForwardOnly ==
  \A p \in Procs :
    (Ended(p, "OrderUpdate") /\ req[p].in.id \in DOMAIN req[p].pre.orders) =>
      StateRank(orders[req[p].in.id].state) >= StateRank(req[p].pre.orders[req[p].in.id].state)

-----------------------------------------------------------------------------
(* The guest book, two requests in flight: with one maid and one menu        *)
(* stored, visitor ids are registered, updated and invalidated, orders are   *)
(* placed, the maid and the menu are deleted, and visitors are looked up.    *)

InitGuests ==
  /\ maids = ("m1" :> SeedMaid)
  /\ users = << >>
  /\ menus = (1 :> SeedMenu)
  /\ orders = << >>
  /\ instaxes = << >>
  /\ histories = << >>
  /\ blobs = {1}
  /\ seq = [key |-> 1, menu |-> 1, order |-> 0, instax |-> 0, history |-> 0]
  /\ now = 0
  /\ req = [p \in Procs |-> Idle]
  /\ conc = 2

NextGuests ==
  \/ \E p \in Procs, id \in UserIds :
       UserCreateStart(p, id, [has |-> {}, seat_id |-> 1, maid_id |-> "m1"])
  \/ \E p \in Procs : UserCreateFind(p)
  \/ \E p \in Procs : UserCreateUpdate(p)
  \/ \E p \in Procs : UserCreateInsert(p)
  \/ \E p \in Procs, id \in UserIds :
       UserUpdateStart(p, id, [has |-> {"is_valid"}, is_valid |-> FALSE])
  \/ \E p \in Procs : UserUpdateValidateMaid(p)
  \/ \E p \in Procs : UserUpdateValidateInstaxMaid(p)
  \/ \E p \in Procs : UserUpdateWrite(p)
  \/ \E p \in Procs : OrderCreate(p, "u1", 1)
  \/ \E p \in Procs : MaidDeleteStart(p, "m1")
  \/ \E p \in Procs : MaidDeleteRow(p)
  \/ \E p \in Procs : MaidDeleteBlob(p)
  \/ \E p \in Procs : MenuDeleteStart(p, 1)
  \/ \E p \in Procs : MenuDeleteRow(p)
  \/ \E p \in Procs : MenuDeleteBlob(p)
  \/ \E p \in Procs, id \in UserIds : UserGet(p, id)
  \/ \E p \in Procs : Finish(p)

SpecGuests == InitGuests /\ [][NextGuests]_vars

(* C17: no step of any request removes a user row, and a lookup is answered  *)
(* not-found only for an id that has no row, so never again once the id has  *)
(* been registered.                                                          *)
C17_UsersNeverDeleted ==
  [][/\ \A u \in DOMAIN users : u \in DOMAIN users'
     /\ \A p \in Procs :
          (req[p].pc = "idle" /\ req'[p].op = "UserGet" /\ req'[p].status = 404) =>
            req'[p].in.id \notin DOMAIN users']_vars

(* a visitor who placed an order and was invalidated is still stored after   *)
(* the maid and the menu are gone, and has just been looked up               *)
C17_Witness ==
  \E p \in Procs :
    /\ Ended(p, "UserGet")
    /\ req[p].status = 200
    /\ ~users[req[p].in.id].isValid
    /\ users[req[p].in.id].maidId = Null
    /\ maids = << >>
    /\ menus = << >>
    /\ seq.order > 0

-----------------------------------------------------------------------------
(* Check-in, two requests in flight: with one maid on duty, visitor ids are  *)
(* registered and re-registered.                                             *)

InitCheckIn ==
  /\ maids = ("m1" :> SeedMaid)
  /\ users = << >>
  /\ menus = << >>
  /\ orders = << >>
  /\ instaxes = << >>
  /\ histories = << >>
  /\ blobs = {}
  /\ seq = [key |-> 0, menu |-> 0, order |-> 0, instax |-> 0, history |-> 0]
  /\ now = 0
  /\ req = [p \in Procs |-> Idle]
  /\ conc = 2

NextCheckIn ==
  \/ \E p \in Procs, id \in UserIds, body \in UserCreateBodies(Seats, {<<"x">>}) :
       UserCreateStart(p, id, body)
  \/ \E p \in Procs : UserCreateFind(p)
  \/ \E p \in Procs : UserCreateUpdate(p)
  \/ \E p \in Procs : UserCreateInsert(p)
  \/ \E p \in Procs : Finish(p)

SpecCheckIn == InitCheckIn /\ [][NextCheckIn]_vars

(* C18: a User create with a valid body naming an existing maid always       *)
(* succeeds and leaves a row for the id, also when two creates of the same   *)
(* unused id are in flight together.                                         *)
C18_UpsertAlwaysSucceeds ==
  \A p \in Procs :
    (Ended(p, "UserCreate") /\ req[p].in.body.maid_id \in DOMAIN maids) =>
      /\ req[p].status = 200
      /\ req[p].in.id \in DOMAIN users

-----------------------------------------------------------------------------
(* The photo album, one request at a time: a maid and a seated visitor       *)
(* exist; instax records are created, their image is replaced, and archived  *)
(* images are deleted.                                                       *)

HistoryIdParams == {DigitText(k) : k \in 0..MaxHist} \cup {<<"x">>, <<"0", "1">>}

InitAlbum ==
  /\ maids = ("m1" :> SeedMaid)
  /\ users = ("u1" :> SeedUser)
  /\ menus = << >>
  /\ orders = << >>
  /\ instaxes = << >>
  /\ histories = << >>
  /\ blobs = {}
  /\ seq = [key |-> 0, menu |-> 0, order |-> 0, instax |-> 0, history |-> 0]
  /\ now = 0
  /\ req = [p \in Procs |-> Idle]
  /\ conc = 1

NextAlbum ==
  \/ \E p \in Procs : InstaxCreate(p, "u1", "m1")
  \/ \E p \in Procs : createInstaxRecordUpload(p)
  \/ \E p \in Procs : createInstaxRecordInsert(p)
  \/ \E p \in Procs, id \in 1..MaxInstax : InstaxUpdateStart(p, id)
  \/ \E p \in Procs : InstaxUpdateUpload(p)
  \/ \E p \in Procs : InstaxUpdateArchive(p)
  \/ \E p \in Procs : InstaxUpdateWrite(p)
  \/ \E p \in Procs, idParam \in HistoryIdParams : InstaxHistoryDeleteStart(p, idParam)
  \/ \E p \in Procs : InstaxHistoryDeleteRow(p)
  \/ \E p \in Procs : InstaxHistoryDeleteBlob(p)
  \/ \E p \in Procs : Finish(p)

SpecAlbum == InitAlbum /\ [][NextAlbum]_vars

-----------------------------------------------------------------------------
(* a stock text that writes a whole number: digits only, blanks around them *)
IsIntegerText(text) ==
  /\ Len(Trim(text)) > 0
  /\ \A i \in 1..Len(Trim(text)) : IsDigit(Trim(text)[i])

(* every stored menu has a whole, non-negative stock *)
StockIsNatural == \A m \in DOMAIN menus : menus[m].stock \in Nat

(* C20: every menu's stock is an integer >= 0, and a Menu create whose stock *)
(* field is negative or not an integer is answered with a validation error   *)
(* and writes nothing.                                                       *)
C20_StockValidated ==
  /\ StockIsNatural
  /\ \A p \in Procs :
       (/\ Ended(p, "MenuCreate")
        /\ "stock" \in req[p].in.body.has
        /\ ~IsIntegerText(req[p].in.body.stock)
        /\ req[p].status # 500) =>
         /\ req[p].status = 400
         /\ menus = req[p].pre.menus

-----------------------------------------------------------------------------
(* The front door, one request at a time: a maid, a visitor, a menu and an   *)
(* order exist; requests arrive whose id path parameter is well formed or    *)
(* not.                                                                      *)

MaidIdParams ==
  {UuidOf("m1"), UuidOf("m2"), UuidOf(Null), <<"a", "b", "c">>,
   Rep("0", 36), Rep("g", 8) \o SubSeq(UuidOf("m1"), 9, 36),
   SubSeq(UuidOf("m1"), 1, 35)}

NumericIdParams ==
  {DigitText(k) : k \in 0..MaxMenus} \cup
    {<<"a", "b", "c">>, <<"1", "x">>, <<"-", "1">>, <<" ", "1">>, <<"0", "1">>, << >>}

InitGate ==
  /\ maids = ("m1" :> SeedMaid)
  /\ users = ("u1" :> SeedUser)
  /\ menus = (1 :> SeedMenu)
  /\ orders = (1 :> OrderInsertRow("u1", 1, 0))
  /\ instaxes = << >>
  /\ histories = << >>
  /\ blobs = {1}
  /\ seq = [key |-> 1, menu |-> 1, order |-> 1, instax |-> 0, history |-> 0]
  /\ now = 0
  /\ req = [p \in Procs |-> Idle]
  /\ conc = 1

GateMenuBodies ==
  {[ct |-> "json", has |-> {"name"}, name |-> <<"P">>],
   [ct |-> "multipart", has |-> {"image"}],
   [ct |-> "multipart", has |-> {}]}

NextGate ==
  \/ \E p \in Procs, idParam \in MaidIdParams : MaidGet(p, idParam)
  \/ \E p \in Procs, idParam \in NumericIdParams, body \in GateMenuBodies :
       MenuUpdateRequest(p, idParam, body)
  \/ \E p \in Procs : MenuUpdateUpload(p)
  \/ \E p \in Procs : MenuUpdateDeleteOld(p)
  \/ \E p \in Procs : MenuUpdateWrite(p)
  \/ \E p \in Procs, idParam \in NumericIdParams, st \in OrderStates :
       OrderUpdateRequest(p, idParam, st)
  \/ \E p \in Procs : OrderUpdateWrite(p)
  \/ \E p \in Procs : Finish(p)
  \/ Tick

SpecGate == InitGate /\ [][NextGate]_vars

(* the id path parameter of a request is not of the form its route expects *)
MalformedId(r) ==
  CASE r.op = "MaidGet" -> ~IsUuidByLength(r.in.idParam) \/
                           \E i \in 1..36 :
                             IF i \in UuidDashAt THEN r.in.idParam[i] # "-"
                             ELSE r.in.idParam[i] \notin HexChars
    [] r.op \in {"MenuUpdate", "OrderUpdate"} ->
         \/ r.in.idParam = << >>
         \/ \E i \in 1..Len(r.in.idParam) : ~IsDigit(r.in.idParam[i])
         \/ Head(r.in.idParam) = "0"
    [] OTHER -> FALSE

InvalidIdMessages == {"Invalid maid id.", "Invalid menu id.", "Invalid order id."}

-----------------------------------------------------------------------------
(* the image key the record an update works on holds now *)
HeldKey(r) ==
  IF r.op = "MenuUpdate"
    THEN (IF r.in.id \in DOMAIN menus THEN menus[r.in.id].imageUrl ELSE NullKey)
    ELSE (IF r.in.id \in DOMAIN maids THEN maids[r.in.id].imageUrl ELSE NullKey)

UpdateSteps == {"upload", "delold", "deleteOld", "write"}

(* C22: while a Maid or Menu update that replaces the image is under way,    *)
(* the prior blob is in the store for as long as the record still holds the  *)
(* prior key: the new key is recorded before the prior blob is removed.      *)
C22_PriorBlobOutlivesPriorKey ==
  \A p \in Procs :
    (/\ req[p].op \in {"MaidUpdate", "MenuUpdate"}
     /\ req[p].pc \in UpdateSteps
     /\ req[p].existing.imageUrl # NullKey
     /\ HeldKey(req[p]) = req[p].existing.imageUrl) =>
      req[p].existing.imageUrl \in blobs

(* C23: every maid's and every menu's non-null image key names an object     *)
(* that is in the store, in every state.                                     *)
C23_ImageKeysNameStoredBlobs ==
  /\ \A m \in DOMAIN maids : maids[m].imageUrl # NullKey => maids[m].imageUrl \in blobs
  /\ \A m \in DOMAIN menus : menus[m].imageUrl # NullKey => menus[m].imageUrl \in blobs

-----------------------------------------------------------------------------
(* C24: a User update whose supplied values all equal the stored ones (the   *)
(* row after the call differs from the row before it in nothing but          *)
(* updated_at, if at all) leaves the user table, updated_at included, as the *)
(* request found it.                                                         *)
C24_SameValuesKeepUpdatedAt ==
  \A p \in Procs :
    (/\ Ended(p, "UserUpdate")
     /\ req[p].status = 200
     /\ req[p].in.id \in DOMAIN req[p].pre.users
     /\ req[p].in.id \in DOMAIN users
     /\ [users[req[p].in.id] EXCEPT !.updatedAt = req[p].pre.users[req[p].in.id].updatedAt]
          = req[p].pre.users[req[p].in.id]) =>
      users = req[p].pre.users

-----------------------------------------------------------------------------
(* Closing time, one request at a time: a maid and two menus, each with an   *)
(* image, are deleted; removing an image from the object store may fail.     *)

InitClosing ==
  /\ maids = ("m1" :> [SeedMaid EXCEPT !.imageUrl = 3])
  /\ users = ("u1" :> SeedUser)
  /\ menus = (1 :> SeedMenu) @@ (2 :> [SeedMenu EXCEPT !.imageUrl = 2])
  /\ orders = << >>
  /\ instaxes = << >>
  /\ histories = << >>
  /\ blobs = {1, 2, 3}
  /\ seq = [key |-> 3, menu |-> 2, order |-> 0, instax |-> 0, history |-> 0]
  /\ now = 0
  /\ req = [p \in Procs |-> Idle]
  /\ conc = 1

NextClosing ==
  \/ \E p \in Procs, id \in MaidIds : MaidCreateStart(p, id, EmptyBody)
  \/ \E p \in Procs : MaidCreateInsert(p)
  \/ \E p \in Procs, id \in MaidIds : MaidDeleteStart(p, id)
  \/ \E p \in Procs : MaidDeleteRow(p)
  \/ \E p \in Procs : MaidDeleteBlob(p)
  \/ \E p \in Procs : MaidDeleteBlobFail(p)
  \/ \E p \in Procs, id \in 1..MaxMenus : MenuDeleteStart(p, id)
  \/ \E p \in Procs : MenuDeleteRow(p)
  \/ \E p \in Procs : MenuDeleteBlob(p)
  \/ \E p \in Procs : MenuDeleteBlobFail(p)
  \/ \E p \in Procs : Finish(p)

SpecClosing == InitClosing /\ [][NextClosing]_vars

(* C25: a Maid delete or Menu delete of a stored record reports success and  *)
(* leaves the record deleted, also when removing the image blob fails after  *)
(* the record was deleted.                                                   *)
C25_DeleteReportsSuccess ==
  \A p \in Procs :
    /\ (Ended(p, "MaidDelete") /\ req[p].in.id \in DOMAIN req[p].pre.maids) =>
         /\ req[p].in.id \notin DOMAIN maids
         /\ req[p].status = 200
    /\ (Ended(p, "MenuDelete") /\ req[p].in.id \in DOMAIN req[p].pre.menus) =>
         /\ req[p].in.id \notin DOMAIN menus
         /\ req[p].status = 200

-----------------------------------------------------------------------------
(* Retouching, two requests in flight: the image of the one menu and of the  *)
(* one maid is replaced; a menu may also be renamed.                         *)

InitRetouch ==
  /\ maids = ("m1" :> SeedMaid)
  /\ users = << >>
  /\ menus = (1 :> SeedMenu)
  /\ orders = << >>
  /\ instaxes = << >>
  /\ histories = << >>
  /\ blobs = {1}
  /\ seq = [key |-> 1, menu |-> 1, order |-> 0, instax |-> 0, history |-> 0]
  /\ now = 0
  /\ req = [p \in Procs |-> Idle]
  /\ conc = 2

RetouchMenuBodies ==
  {[ct |-> "multipart", has |-> {"image"}],
   [ct |-> "json", has |-> {"name"}, name |-> <<"P">>]}

NextRetouch ==
  \/ \E p \in Procs, body \in RetouchMenuBodies : MenuUpdateStart(p, 1, body)
  \/ \E p \in Procs : MenuUpdateUpload(p)
  \/ \E p \in Procs : MenuUpdateDeleteOld(p)
  \/ \E p \in Procs : MenuUpdateWrite(p)
  \/ \E p \in Procs : MaidUpdateStart(p, "m1", [ct |-> "multipart", has |-> {"image"}])
  \/ \E p \in Procs : MaidUpdateUpload(p)
  \/ \E p \in Procs : MaidUpdateDeleteOld(p)
  \/ \E p \in Procs : MaidUpdateWrite(p)
  \/ \E p \in Procs : Finish(p)

SpecRetouch == InitRetouch /\ [][NextRetouch]_vars

(* no request is between its first and its last step *)
AllCompleted == \A p \in Procs : req[p].pc \in {"idle", "done"}

(* the keys the maid and menu rows hold *)
ReferencedKeys ==
  {maids[m].imageUrl : m \in DOMAIN maids} \cup {menus[m].imageUrl : m \in DOMAIN menus}

(* C26: once every image-replacing update has completed, each object in the  *)
(* store is the one a record's image key names: an update that lost a race   *)
(* leaves no unreferenced object behind.                                     *)
C26_NoOrphanAfterUpdates ==
  AllCompleted => \A k \in blobs : k \in ReferencedKeys

-----------------------------------------------------------------------------
(* The darkroom, two requests in flight: the image of the one instax record  *)
(* is replaced, any step of a replacement may fail, and archived images are  *)
(* deleted.                                                                  *)

InitDarkroom ==
  /\ maids = ("m1" :> SeedMaid)
  /\ users = ("u1" :> SeedUser)
  /\ menus = << >>
  /\ orders = << >>
  /\ instaxes = (1 :> InstaxInsertRow("u1", "m1", 1, 0))
  /\ histories = << >>
  /\ blobs = {1}
  /\ seq = [key |-> 1, menu |-> 0, order |-> 0, instax |-> 1, history |-> 0]
  /\ now = 0
  /\ req = [p \in Procs |-> Idle]
  /\ conc = 2

NextDarkroom ==
  \/ \E p \in Procs : InstaxUpdateStart(p, 1)
  \/ \E p \in Procs : InstaxUpdateUpload(p)
  \/ \E p \in Procs : InstaxUpdateUploadFail(p)
  \/ \E p \in Procs : InstaxUpdateArchive(p)
  \/ \E p \in Procs : InstaxUpdateArchiveFail(p)
  \/ \E p \in Procs : InstaxUpdateWrite(p)
  \/ \E p \in Procs : InstaxUpdateWriteFail(p)
  \/ \E p \in Procs, idParam \in {DigitText(k) : k \in 1..MaxHist} :
       InstaxHistoryDeleteStart(p, idParam)
  \/ \E p \in Procs : InstaxHistoryDeleteRow(p)
  \/ \E p \in Procs : InstaxHistoryDeleteBlob(p)
  \/ \E p \in Procs : Finish(p)

SpecDarkroom == InitDarkroom /\ [][NextDarkroom]_vars

(* C27: no image key is carried by two history rows, and no image key is at  *)
(* once an instax record's current key and carried by a history row; stated  *)
(* here for the states in which no request is between two of its steps.      *)
C27_ArchivedKeysAreDistinct ==
  AllCompleted =>
    /\ \A h1, h2 \in DOMAIN histories :
         h1 # h2 => histories[h1].imageUrl # histories[h2].imageUrl
    /\ \A h \in DOMAIN histories, i \in DOMAIN instaxes :
         histories[h].imageUrl # instaxes[i].imageUrl

(* the keys an instax record holds or has archived *)
KeysOfInstax(i) ==
  (IF i \in DOMAIN instaxes THEN {instaxes[i].imageUrl} ELSE {})
    \cup {histories[h].imageUrl : h \in {k \in DOMAIN histories : histories[k].instaxId = i}}

(* C28: once all requests have completed, the object a successful Instax     *)
(* update stored, if it is still in the store, is the record's current image *)
(* or is carried by one of its history rows.                                 *)
C28_NoImageLostByReplacement ==
  AllCompleted =>
    \A p \in Procs :
      (Ended(p, "InstaxUpdate") /\ req[p].status = 200 /\ req[p].key \in blobs) =>
        req[p].key \in KeysOfInstax(req[p].in.id)

-----------------------------------------------------------------------------
(* C29: an Instax create whose insert fails after the upload (the user or    *)
(* the maid it names is not stored) ends with no instax row added and with   *)
(* no object of the request left in the store.                               *)
C29_FailedCreateLeavesNothing ==
  \A p \in Procs :
    (/\ Ended(p, "InstaxCreate")
     /\ (req[p].in.userId \notin DOMAIN req[p].pre.users
           \/ req[p].in.maidId \notin DOMAIN req[p].pre.maids)) =>
      /\ req[p].status = 500
      /\ instaxes = req[p].pre.instaxes
      /\ blobs = req[p].pre.blobs

-----------------------------------------------------------------------------
(* Turnover, two requests in flight: the one maid and the one menu, each     *)
(* with an image, are updated while they may be deleted.                     *)

InitTurnover ==
  /\ maids = ("m1" :> [SeedMaid EXCEPT !.imageUrl = 2])
  /\ users = << >>
  /\ menus = (1 :> SeedMenu)
  /\ orders = << >>
  /\ instaxes = << >>
  /\ histories = << >>
  /\ blobs = {1, 2}
  /\ seq = [key |-> 2, menu |-> 1, order |-> 0, instax |-> 0, history |-> 0]
  /\ now = 0
  /\ req = [p \in Procs |-> Idle]
  /\ conc = 2

NextTurnover ==
  \/ \E p \in Procs : MaidUpdateStart(p, "m1", [ct |-> "multipart", has |-> {"image"}])
  \/ \E p \in Procs : MaidUpdateUpload(p)
  \/ \E p \in Procs : MaidUpdateDeleteOld(p)
  \/ \E p \in Procs : MaidUpdateWrite(p)
  \/ \E p \in Procs : MaidDeleteStart(p, "m1")
  \/ \E p \in Procs : MaidDeleteRow(p)
  \/ \E p \in Procs : MaidDeleteBlob(p)
  \/ \E p \in Procs, body \in RetouchMenuBodies : MenuUpdateStart(p, 1, body)
  \/ \E p \in Procs : MenuUpdateUpload(p)
  \/ \E p \in Procs : MenuUpdateDeleteOld(p)
  \/ \E p \in Procs : MenuUpdateWrite(p)
  \/ \E p \in Procs : MenuDeleteStart(p, 1)
  \/ \E p \in Procs : MenuDeleteRow(p)
  \/ \E p \in Procs : MenuDeleteBlob(p)
  \/ \E p \in Procs : Finish(p)

SpecTurnover == InitTurnover /\ [][NextTurnover]_vars

(* C30: the write step of a Maid or Menu update answers success only if the  *)
(* record is stored when the step runs; if the record was deleted since the  *)
(* existence check, the answer is not a success and the object the update    *)
(* uploaded is not left in the store.                                        *)
C30_UpdateSucceedsOnlyOnStoredRecord ==
  [][\A p \in Procs :
       (/\ req[p].op \in {"MaidUpdate", "MenuUpdate"}
        /\ req[p].pc = "write"
        /\ req'[p].pc = "done"
        /\ req[p].in.id \notin
             (IF req[p].op = "MaidUpdate" THEN DOMAIN maids ELSE DOMAIN menus)) =>
         /\ req'[p].status # 200
         /\ req[p].key # NullKey => req[p].key \notin blobs']_vars

====
